---- MODULE Spec2Model ----
(***************************************************************************)
(* Model of the rating-extraction heuristics (gresb_scraper.py, scraper.py) *)
(* and of the provider fallback cascade (logo_extractor.py).               *)
(*                                                                         *)
(* A text is a sequence of characters, each character a one-character      *)
(* string; the character U+2605 (black star) is written "U2605".           *)
(* A regular expression is a syntax tree, matched by a backtracking        *)
(* matcher that lists its successes in the order Python's re module tries  *)
(* them: the first success at the leftmost start is what re.search finds.  *)
(* An optional value (Python's None or a value v) is <<>> or <<v>>.        *)
(***************************************************************************)
EXTENDS Integers, Sequences, FiniteSets, TLC

VARIABLES
  program,         \* which script runs and how far: one page ("gresb", "sust"),
                   \* a whole run ("gresb_run", "sust_run"), "logo", "main" of
                   \* logo_extractor.py, single calls ("names", "driver")
  pc,              \* where the run is
  page_text,       \* the rendered text of the page being processed
  score_elements,  \* scraper.py: what find_elements gives for the score selector
  gresb_info,      \* gresb_scraper.py: what extract_gresb_rating returns
  result,          \* scraper.py: the record of the page
  companies,       \* logo_extractor.py: the list given to extract_multiple
  ci,              \* the number of companies extract_multiple has taken from the list
  si,              \* the service extract_logo is at, an index of services
  attempts,        \* the services extract_logo has called for the current company
  response,        \* what the last requests.get produced
  downloaded,      \* self.downloaded
  failed,          \* self.failed
  returned,        \* what the extract_logo calls returned, in call order
  files,           \* the logo files in output_dir: path and image mode
  exception,       \* the exception that ended the run, if one did
  driver,          \* the browser handle of a rating run: self.driver, driver
  browsers,        \* the browsers started so far; a handle is an index of it
  ti,              \* the number of targets the loop of a rating run has taken
  ui,              \* the url scrape_company is at, an index of the company's urls
  loads,           \* the driver.get calls made for the current target
  results,         \* self.results, results
  outputs,         \* the output files written
  printed,         \* the reports printed
  file,            \* logo_extractor.py: the file args.file names
  name_given,      \* the name clean_filename is called with
  filename,        \* what clean_filename returned
  calls            \* the start_driver and close_driver calls made on one scraper

ratingVars == <<page_text, score_elements, gresb_info, result>>
logoVars == <<companies, ci, si, attempts, response, downloaded, failed, returned, files, exception>>
runVars == <<driver, browsers, ti, ui, loads, results, outputs, printed>>
callVars == <<file, name_given, filename, calls>>

None == <<>>
Some(v) == <<v>>

\* ---------------------------------------------------------------- characters

UpperLetters == <<"A", "B", "C", "D", "E", "F", "G", "H", "I", "J", "K", "L", "M", "N", "O", "P", "Q", "R", "S", "T", "U", "V", "W", "X", "Y", "Z">>
LowerLetters == <<"a", "b", "c", "d", "e", "f", "g", "h", "i", "j", "k", "l", "m", "n", "o", "p", "q", "r", "s", "t", "u", "v", "w", "x", "y", "z">>
DigitChars == <<"0", "1", "2", "3", "4", "5", "6", "7", "8", "9">>

Range(s) == {s[i] : i \in DOMAIN s}
IndexOf(s, c) == CHOOSE i \in DOMAIN s : s[i] = c

UpperSet == Range(UpperLetters)
LowerSet == Range(LowerLetters)
DigitSet == Range(DigitChars)
\* \w of a str pattern: the alphanumeric characters and "_"; U+0130 (capital I
\* with a dot above) is the one letter outside ASCII the texts here contain.
WordSet == UpperSet \cup LowerSet \cup DigitSet \cup {"_", "U0130"}
ToLower == [c \in UpperSet |-> LowerLetters[IndexOf(UpperLetters, c)]]
ToUpper == [c \in LowerSet |-> UpperLetters[IndexOf(LowerLetters, c)]]
DigitValue == [c \in DigitSet |-> IndexOf(DigitChars, c) - 1]

\* str.lower / str.upper / str.swapcase on one character.
LowerChar(c) == IF c \in UpperSet THEN ToLower[c] ELSE c
UpperChar(c) == IF c \in LowerSet THEN ToUpper[c] ELSE c
SwapChar(c) == IF c \in UpperSet THEN ToLower[c] ELSE UpperChar(c)

LowerText(t) == [i \in 1..Len(t) |-> LowerChar(t[i])]
UpperText(t) == [i \in 1..Len(t) |-> UpperChar(t[i])]
SwapText(t) == [i \in 1..Len(t) |-> SwapChar(t[i])]

IsDigit(c) == c \in DigitSet
IsSpace(c) == c \in {" ", "\n", "\t"}
IsWord(c) == c \in WordSet

\* The character classes the patterns use: \d, \s, [\s:], \w, . , [0-4], [0-9].
ClassHas(cls, c) ==
  CASE cls = "\\d" -> IsDigit(c)
    [] cls = "\\s" -> IsSpace(c)
    [] cls = "[\\s:]" -> IsSpace(c) \/ c = ":"
    [] cls = "\\w" -> IsWord(c)
    [] cls = "." -> c # "\n"
    [] cls = "[0-4]" -> c \in {"0", "1", "2", "3", "4"}
    [] cls = "[0-9]" -> IsDigit(c)

\* ------------------------------------------------------ regular expressions

Lit(s) == [t |-> "lit", s |-> s]
Cls(c) == [t |-> "cls", c |-> c]
Cat(xs) == [t |-> "cat", xs |-> xs]
Alt(xs) == [t |-> "alt", xs |-> xs]
\* x{lo,hi}; hi = -1 is no upper limit; greedy = FALSE is the lazy form (x*?).
Rep(x, lo, hi, greedy) == [t |-> "rep", x |-> x, lo |-> lo, hi |-> hi, greedy |-> greedy]
Opt(x) == Rep(x, 0, 1, TRUE)
Star(x) == Rep(x, 0, -1, TRUE)
Plus(x) == Rep(x, 1, -1, TRUE)
Grp(x) == [t |-> "grp", x |-> x]
WordBoundary == [t |-> "wb"]
EndOfText == [t |-> "eot"]

\* \b at position p (between characters p-1 and p).
AtWordBoundary(txt, p) ==
  LET before == p > 1 /\ IsWord(txt[p - 1])
      after == p <= Len(txt) /\ IsWord(txt[p])
  IN before # after

LitAt(s, txt, ic, p) ==
  /\ p + Len(s) - 1 <= Len(txt)
  /\ \A k \in DOMAIN s :
       IF ic THEN LowerChar(txt[p + k - 1]) = LowerChar(s[k]) ELSE txt[p + k - 1] = s[k]

\* A matcher state m: the position p of the next character and the span
\* [cs, ce) of group 1 (0, 0 while the group has not taken part).
\* Match(n, txt, ic, m): every way node n matches at m, in backtracking order.
RECURSIVE Match(_, _, _, _), MatchCat(_, _, _, _, _), ThenCat(_, _, _, _, _, _, _)
RECURSIVE MatchAlt(_, _, _, _, _), MatchRep(_, _, _, _, _), ThenRep(_, _, _, _, _, _, _)

\* A node that consumes exactly one character when it matches.
OneChar(n) == n.t = "cls" \/ (n.t = "lit" /\ Len(n.s) = 1)
CharMatches(n, ic, c) ==
  IF n.t = "cls" THEN ClassHas(n.c, c)
  ELSE IF ic THEN LowerChar(c) = LowerChar(n.s[1]) ELSE c = n.s[1]

\* The first position in lo..hi whose character the one-character node n does
\* not match, hi + 1 when there is none (halving keeps the recursion shallow).
RECURSIVE FirstMismatch(_, _, _, _, _)
FirstMismatch(n, txt, ic, lo, hi) ==
  IF lo > hi THEN lo
  ELSE IF ~CharMatches(n, ic, txt[lo]) THEN lo
  ELSE IF lo = hi THEN hi + 1
  ELSE LET mid == (lo + 1 + hi) \div 2
           left == FirstMismatch(n, txt, ic, lo + 1, mid)
       IN IF left <= mid THEN left ELSE FirstMismatch(n, txt, ic, mid + 1, hi)

\* How many consecutive characters from position p on match the one-character
\* node n, counting no further than limit of them (limit = -1: no limit).
RunLength(n, txt, ic, p, limit) ==
  LET last == IF limit = -1 \/ p + limit - 1 > Len(txt) THEN Len(txt) ELSE p + limit - 1
  IN FirstMismatch(n, txt, ic, p, last) - p

\* x{lo,hi} over a one-character x: the longest run first when greedy, the
\* shortest first when lazy, one success per admissible count.
RepOneChar(n, txt, ic, m) ==
  LET most == RunLength(n.x, txt, ic, m.p, n.hi)
  IN IF most < n.lo THEN <<>>
     ELSE [j \in 1..(most - n.lo + 1) |->
             [m EXCEPT !.p = m.p + (IF n.greedy THEN most - j + 1 ELSE n.lo + j - 1)]]

Match(n, txt, ic, m) ==
  CASE n.t = "lit" -> IF LitAt(n.s, txt, ic, m.p) THEN <<[m EXCEPT !.p = m.p + Len(n.s)]>> ELSE <<>>
    [] n.t = "cls" -> IF m.p <= Len(txt) /\ ClassHas(n.c, txt[m.p]) THEN <<[m EXCEPT !.p = m.p + 1]>> ELSE <<>>
    [] n.t = "cat" -> MatchCat(n.xs, 1, txt, ic, m)
    [] n.t = "alt" -> MatchAlt(n.xs, 1, txt, ic, m)
    [] n.t = "rep" -> IF OneChar(n.x) THEN RepOneChar(n, txt, ic, m) ELSE MatchRep(n, 0, txt, ic, m)
    [] n.t = "grp" -> LET rs == Match(n.x, txt, ic, m)
                      IN [k \in DOMAIN rs |-> [rs[k] EXCEPT !.cs = m.p, !.ce = rs[k].p]]
    [] n.t = "wb" -> IF AtWordBoundary(txt, m.p) THEN <<m>> ELSE <<>>
    [] n.t = "eot" -> IF m.p = Len(txt) + 1 \/ (m.p = Len(txt) /\ txt[m.p] = "\n") THEN <<m>> ELSE <<>>

\* xs[i], then the rest of the concatenation from each of its successes in turn.
MatchCat(xs, i, txt, ic, m) ==
  IF i > Len(xs) THEN <<m>>
  ELSE LET rs == Match(xs[i], txt, ic, m)
       IN IF rs = <<>> THEN <<>> ELSE ThenCat(rs, 1, Len(rs), xs, i + 1, txt, ic)

\* The successes of xs[j..] from rs[lo], ..., rs[hi], in that order.
ThenCat(rs, lo, hi, xs, j, txt, ic) ==
  IF lo = hi THEN MatchCat(xs, j, txt, ic, rs[lo])
  ELSE LET mid == (lo + hi) \div 2
       IN ThenCat(rs, lo, mid, xs, j, txt, ic) \o ThenCat(rs, mid + 1, hi, xs, j, txt, ic)

MatchAlt(xs, i, txt, ic, m) ==
  IF i > Len(xs) THEN <<>>
  ELSE Match(xs[i], txt, ic, m) \o MatchAlt(xs, i + 1, txt, ic, m)

\* x{lo,hi} in general: another x (that consumed something) before stopping
\* when greedy, stopping first when lazy.
MatchRep(n, count, txt, ic, m) ==
  LET stop == IF count >= n.lo THEN <<m>> ELSE <<>>
      more == IF n.hi = -1 \/ count < n.hi
              THEN ThenRep(Match(n.x, txt, ic, m), 1, n, count + 1, txt, ic, m.p)
              ELSE <<>>
  IN IF n.greedy THEN more \o stop ELSE stop \o more

ThenRep(rs, k, n, count, txt, ic, p0) ==
  IF k > Len(rs) THEN <<>>
  ELSE (IF rs[k].p > p0 THEN MatchRep(n, count, txt, ic, rs[k]) ELSE <<>>)
       \o ThenRep(rs, k + 1, n, count, txt, ic, p0)

NoMatch == [found |-> FALSE, s |-> 0, e |-> 0, cs |-> 0, ce |-> 0]

\* The match starting exactly at position s, if any (re.match for s = 1).
MatchAt(pat, txt, ic, s) ==
  LET rs == Match(pat, txt, ic, [p |-> s, cs |-> 0, ce |-> 0])
  IN IF rs = <<>> THEN NoMatch
     ELSE [found |-> TRUE, s |-> s, e |-> rs[1].p, cs |-> rs[1].cs, ce |-> rs[1].ce]

\* The leftmost match starting at a position in lo..hi (halving keeps the
\* recursion shallow; the left half is always tried first).
RECURSIVE SearchIn(_, _, _, _, _)
SearchIn(pat, txt, ic, lo, hi) ==
  IF lo > hi THEN NoMatch
  ELSE IF lo = hi THEN MatchAt(pat, txt, ic, lo)
  ELSE LET mid == (lo + hi) \div 2
           left == SearchIn(pat, txt, ic, lo, mid)
       IN IF left.found THEN left ELSE SearchIn(pat, txt, ic, mid + 1, hi)

\* The leftmost match starting at position from or later.
SearchFrom(pat, txt, ic, from) == SearchIn(pat, txt, ic, from, Len(txt) + 1)

\* re.search(pattern, text) / re.search(pattern, text, re.IGNORECASE)
re_search(pat, txt, ic) == SearchFrom(pat, txt, ic, 1)

\* match.group(1)
Group1(txt, r) == SubSeq(txt, r.cs, r.ce - 1)

\* int() of a string of decimal digits.
RECURSIVE ToInt(_)
ToInt(ds) ==
  IF ds = <<>> THEN 0
  ELSE 10 * ToInt(SubSeq(ds, 1, Len(ds) - 1)) + DigitValue[ds[Len(ds)]]

\* ------------------------------------------- gresb_scraper.py: the patterns

GRESB == Lit(<<"G", "R", "E", "S", "B">>)
Spaces == Star(Cls("\\s"))
\* (\d{1,2}): a score group that stops after two digits.
Digits1to2 == Grp(Rep(Cls("\\d"), 1, 2, TRUE))
Digits1to3 == Grp(Rep(Cls("\\d"), 1, 3, TRUE))
Digit1 == Grp(Cls("\\d"))
StarWord == Alt(<<Lit(<<"s", "t", "a", "r">>), Lit(<<"U2605">>)>>)
Achieved == Cat(<<Lit(<<"a", "c", "h", "i", "e", "v", "e">>), Opt(Lit(<<"d">>))>>)

\* r'GRESB\s*(?:score|rating)[\s:]*(\d{1,3})'
score_pattern_1 ==
  Cat(<<GRESB, Spaces,
        Alt(<<Lit(<<"s", "c", "o", "r", "e">>), Lit(<<"r", "a", "t", "i", "n", "g">>)>>),
        Star(Cls("[\\s:]")), Digits1to3>>)
\* r'scored?\s*(\d{1,3})\s*(?:out of 100)?\s*in\s*GRESB'
score_pattern_2 ==
  Cat(<<Lit(<<"s", "c", "o", "r", "e">>), Opt(Lit(<<"d">>)), Spaces, Digits1to3, Spaces,
        Opt(Lit(<<"o", "u", "t", " ", "o", "f", " ", "1", "0", "0">>)), Spaces,
        Lit(<<"i", "n">>), Spaces, GRESB>>)
\* r'(\d{1,3})/100\s*GRESB'
score_pattern_3 == Cat(<<Digits1to3, Lit(<<"/", "1", "0", "0">>), Spaces, GRESB>>)
\* r'GRESB.*?(\d{1,3})\s*(?:points|score)'
score_pattern_4 ==
  Cat(<<GRESB, Rep(Cls("."), 0, -1, FALSE), Digits1to3, Spaces,
        Alt(<<Lit(<<"p", "o", "i", "n", "t", "s">>), Lit(<<"s", "c", "o", "r", "e">>)>>)>>)
\* r'achieved?\s*(\d{1,3})\s*in\s*(?:the\s*)?GRESB'
score_pattern_5 ==
  Cat(<<Achieved, Spaces, Digits1to3, Spaces, Lit(<<"i", "n">>), Spaces,
        Opt(Cat(<<Lit(<<"t", "h", "e">>), Spaces>>)), GRESB>>)

\* The score patterns with pattern 3 tried before pattern 1.
score_patterns_3_first == <<score_pattern_3, score_pattern_2, score_pattern_1, score_pattern_4, score_pattern_5>>
score_patterns == <<score_pattern_1, score_pattern_2, score_pattern_3, score_pattern_4, score_pattern_5>>

\* r'(\d)\s*(?:star|U+2605)\s*GRESB'
star_pattern_1 == Cat(<<Digit1, Spaces, StarWord, Spaces, GRESB>>)
\* r'GRESB\s*(\d)\s*(?:star|U+2605)'
star_pattern_2 == Cat(<<GRESB, Spaces, Digit1, Spaces, StarWord>>)
\* r'achieved?\s*(\d)\s*stars?\s*in\s*GRESB'
star_pattern_3 ==
  Cat(<<Achieved, Spaces, Digit1, Spaces, Lit(<<"s", "t", "a", "r">>), Opt(Lit(<<"s">>)), Spaces,
        Lit(<<"i", "n">>), Spaces, GRESB>>)
\* r'(\d)-star\s*(?:GRESB\s*)?rating'
star_pattern_4 ==
  Cat(<<Digit1, Lit(<<"-", "s", "t", "a", "r">>), Spaces, Opt(Cat(<<GRESB, Spaces>>)),
        Lit(<<"r", "a", "t", "i", "n", "g">>)>>)

star_patterns == <<star_pattern_1, star_pattern_2, star_pattern_3, star_pattern_4>>

\* ------------------------------- gresb_scraper.py: extract_gresb_rating

\* The range checks without their upper limits.
ScoreAtLeast0(score) == 0 <= score
StarsAtLeast1(stars) == 1 <= stars

\* re.search(pattern, text): the search without the IGNORECASE flag.
gresb_search_cased(pattern, text) == re_search(pattern, text, FALSE)

\* re.search(pattern, text, re.IGNORECASE)
gresb_search(pattern, text) == re_search(pattern, text, TRUE)

\* if 0 <= score <= 100
ScoreInRange(score) == 0 <= score /\ score <= 100
\* if 1 <= stars <= 5
StarsInRange(stars) == 1 <= stars /\ stars <= 5

\* for pattern in score_patterns: ... break.  v is gresb_info['score'] after the
\* loop, tried the number of patterns the loop searched for.
RECURSIVE ScoreLoop(_, _)
ScoreLoop(text, i) ==
  IF i > Len(score_patterns) THEN [v |-> None, tried |-> Len(score_patterns)]
  ELSE LET match == gresb_search(score_patterns[i], text)
       IN IF match.found /\ ScoreInRange(ToInt(Group1(text, match)))
          THEN [v |-> Some(ToInt(Group1(text, match))), tried |-> i]
          ELSE ScoreLoop(text, i + 1)

\* for pattern in star_patterns: ... break
RECURSIVE StarLoop(_, _)
StarLoop(text, i) ==
  IF i > Len(star_patterns) THEN [v |-> None, tried |-> Len(star_patterns)]
  ELSE LET match == gresb_search(star_patterns[i], text)
       IN IF match.found /\ StarsInRange(ToInt(Group1(text, match)))
          THEN [v |-> Some(ToInt(Group1(text, match))), tried |-> i]
          ELSE StarLoop(text, i + 1)

extract_gresb_rating(text) ==
  LET sc == ScoreLoop(text, 1)
      st == StarLoop(text, 1)
  IN [score |-> sc.v, stars |-> st.v, score_tried |-> sc.tried, stars_tried |-> st.tried]

\* --------------------------------------------------- scraper.py: helpers

\* s in txt (substring test, case-sensitive)
Contains(txt, s) == \E p \in 1..(Len(txt) - Len(s) + 1) : LitAt(s, txt, FALSE, p)

\* str.strip()
RECURSIVE LStrip(_), RStrip(_)
LStrip(t) == IF t # <<>> /\ IsSpace(t[1]) THEN LStrip(Tail(t)) ELSE t
RStrip(t) == IF t # <<>> /\ IsSpace(t[Len(t)]) THEN RStrip(SubSeq(t, 1, Len(t) - 1)) ELSE t
Strip(t) == RStrip(LStrip(t))

\* re.findall(pattern, text) of a pattern with one group: group 1 of the
\* successive non-overlapping matches, left to right.
RECURSIVE FindAllFrom(_, _, _, _)
FindAllFrom(pat, txt, ic, from) ==
  LET r == SearchFrom(pat, txt, ic, from)
  IN IF ~r.found THEN <<>>
     ELSE <<Group1(txt, r)>> \o FindAllFrom(pat, txt, ic, IF r.e > r.s THEN r.e ELSE r.e + 1)
re_findall(pat, txt) == FindAllFrom(pat, txt, FALSE, 1)

\* A float is the decimal n / 10^d with no trailing zero in its d fraction
\* digits, so that two floats are equal exactly when their records are.
RECURSIVE Pow10(_), Normal(_, _)
Pow10(d) == IF d = 0 THEN 1 ELSE 10 * Pow10(d - 1)
Normal(n, d) == IF d > 0 /\ n % 10 = 0 THEN Normal(n \div 10, d - 1) ELSE [n |-> n, d |-> d]

\* float() of digits, an optional point and optional fraction digits.
float(s) ==
  LET dots == {k \in DOMAIN s : s[k] = "."}
      dot == IF dots = {} THEN Len(s) + 1 ELSE CHOOSE k \in dots : TRUE
      whole == SubSeq(s, 1, dot - 1)
      frac == SubSeq(s, dot + 1, Len(s))
  IN Normal(ToInt(whole \o frac), Len(frac))

\* if 0 <= score <= 100
EsgInRange(score) == 0 <= score.n /\ score.n <= 100 * Pow10(score.d)

\* Python's truth value of result['ESG_Score']: None and 0.0 are false.
Truthy(opt) == opt # None /\ opt[1].n # 0

\* ------------------------------------------------- scraper.py: the patterns

Number == Grp(Cat(<<Plus(Cls("\\d")), Opt(Lit(<<".">>)), Star(Cls("\\d"))>>))

\* r'^\d+\.?\d*$'
element_pattern == Cat(<<Plus(Cls("\\d")), Opt(Lit(<<".">>)), Star(Cls("\\d")), EndOfText>>)

\* r'ESG Risk Rating[:\s]+(\d+\.?\d*)'
esg_pattern_1 ==
  Cat(<<Lit(<<"E", "S", "G", " ", "R", "i", "s", "k", " ", "R", "a", "t", "i", "n", "g">>),
        Plus(Cls("[\\s:]")), Number>>)
\* r'Risk Rating[:\s]+(\d+\.?\d*)'
esg_pattern_2 ==
  Cat(<<Lit(<<"R", "i", "s", "k", " ", "R", "a", "t", "i", "n", "g">>), Plus(Cls("[\\s:]")), Number>>)
\* r'Score[:\s]+(\d+\.?\d*)'
esg_pattern_3 == Cat(<<Lit(<<"S", "c", "o", "r", "e">>), Plus(Cls("[\\s:]")), Number>>)
\* r'\b((?:[0-4]?[0-9]|50)(?:\.\d{1,2})?)\b'
esg_pattern_4 ==
  Cat(<<WordBoundary,
        Grp(Cat(<<Alt(<<Cat(<<Opt(Cls("[0-4]")), Cls("[0-9]")>>), Lit(<<"5", "0">>)>>),
                  Opt(Cat(<<Lit(<<".">>), Rep(Cls("\\d"), 1, 2, TRUE)>>))>>)),
        WordBoundary>>)

esg_score_patterns == <<esg_pattern_1, esg_pattern_2, esg_pattern_3, esg_pattern_4>>

risk_patterns ==
  << <<"N", "e", "g", "l", "i", "g", "i", "b", "l", "e">>, <<"L", "o", "w">>,
     <<"M", "e", "d", "i", "u", "m">>, <<"H", "i", "g", "h">>, <<"S", "e", "v", "e", "r", "e">> >>

ManagementPhrase == <<"M", "a", "n", "a", "g", "e", "m", "e", "n", "t", " ", "o", "f", " ", "E", "S", "G", " ", "M", "a", "t", "e", "r", "i", "a", "l", " ", "R", "i", "s", "k", " ", "i", "s">>
\* r"Management of ESG Material Risk is (\w+)"
management_pattern == Cat(<<Lit(ManagementPhrase), Lit(<<" ">>), Grp(Plus(Cls("\\w")))>>)

\* ------------------------------- scraper.py: one company of scrape_sustainalytics

\* Method 1.  elements.raises: find_elements raised (except: pass); otherwise
\* elements.texts are the element texts, in document order.
RECURSIVE ElementLoop(_, _)
ElementLoop(texts, k) ==
  IF k > Len(texts) THEN None
  ELSE LET text == Strip(texts[k])
       IN IF text # <<>> /\ MatchAt(element_pattern, text, FALSE, 1).found
          THEN Some(float(text))
          ELSE ElementLoop(texts, k + 1)
ScoreFromElements(elements) == IF elements.raises THEN None ELSE ElementLoop(elements.texts, 1)

\* for match in matches: ... break.  The ESG_Score after the loop, cur before it.
RECURSIVE MatchLoop(_, _, _)
MatchLoop(matches, k, cur) ==
  IF k > Len(matches) THEN cur
  ELSE IF EsgInRange(float(matches[k])) THEN Some(float(matches[k]))
  ELSE MatchLoop(matches, k + 1, cur)

\* Method 2: for pattern in score_patterns: ... if result['ESG_Score']: break
RECURSIVE PatternLoop(_, _, _)
PatternLoop(ptext, i, cur) ==
  IF i > Len(esg_score_patterns) THEN [v |-> cur, tried |-> Len(esg_score_patterns)]
  ELSE LET matches == re_findall(esg_score_patterns[i], ptext)
           now == IF matches # <<>> THEN MatchLoop(matches, 1, cur) ELSE cur
       IN IF Truthy(now) THEN [v |-> now, tried |-> i]
          ELSE PatternLoop(ptext, i + 1, now)

\* The risk loop without its break: the last vocabulary entry present wins.
RiskLoopNoBreak(ptext, i) ==
  LET present == {k \in i..Len(risk_patterns) : Contains(ptext, risk_patterns[k])}
  IN IF present = {} THEN None
     ELSE Some(risk_patterns[CHOOSE k \in present : \A l \in present : l <= k])

\* The risk loop over the vocabulary without its first entry.
RiskLoopFromSecond(ptext, i) ==
  LET present == {k \in (i + 1)..Len(risk_patterns) : Contains(ptext, risk_patterns[k])}
  IN IF present = {} THEN None
     ELSE Some(risk_patterns[CHOOSE k \in present : \A l \in present : k <= l])

\* for risk in risk_patterns: if risk in page_text: ... break
RECURSIVE RiskLoop(_, _)
RiskLoop(ptext, i) ==
  IF i > Len(risk_patterns) THEN None
  ELSE IF Contains(ptext, risk_patterns[i]) THEN Some(risk_patterns[i])
  ELSE RiskLoop(ptext, i + 1)

ManagementLevel(ptext) ==
  IF Contains(ptext, ManagementPhrase)
  THEN LET mgmt_match == re_search(management_pattern, ptext, FALSE)
       IN IF mgmt_match.found THEN Some(Group1(ptext, mgmt_match)) ELSE None
  ELSE None

\* The record of a page whose load raised (the except branch).
EmptyResult ==
  [ESG_Score |-> None, Risk_Level |-> None, Management |-> None, method |-> "none", tried |-> 0]

\* The record of a loaded page.  method (which method supplied ESG_Score) and
\* tried (how many text patterns Method 2 searched for) observe the run.
ScrapePage(ptext, elements) ==
  LET dom == ScoreFromElements(elements)
      byText == IF ~Truthy(dom) THEN PatternLoop(ptext, 1, dom) ELSE [v |-> dom, tried |-> 0]
  IN [ESG_Score |-> byText.v,
      Risk_Level |-> RiskLoop(ptext, 1),
      Management |-> ManagementLevel(ptext),
      method |-> IF byText.v = None THEN "none" ELSE IF byText.v = dom THEN "dom" ELSE "text",
      tried |-> byText.tried]

\* ------------------------------------------------------- the rating inputs

\* How many phrases a page text is made of, at most.
MaxPhrases == 2

PhraseSeparator == <<".", " ">>

RECURSIVE Join(_)
Join(ps) ==
  IF ps = <<>> THEN <<>>
  ELSE IF Len(ps) = 1 THEN ps[1]
  ELSE ps[1] \o PhraseSeparator \o Join(Tail(ps))

\* The page texts made of at most MaxPhrases of the given phrases.
TextsOf(phrases) == {Join(ps) : ps \in UNION {[1..k -> phrases] : k \in 0..MaxPhrases}}

\* The phrases about a score:
\* "GRESB score: 83"
\* "GRESB score: 140"
\* "GRESB score: 14000/100 GRESB"
\* "scored 0 in GRESB"
\* "scored 101 in GRESB"
\* "5/100 GRESB"
\* "GRESB score: 140/100 GRESB"
\* "GRESB awarded 100 points"
\* "GRESB awarded 140 points"
\* "achieved 7 in the GRESB"
\* "achieved 200 in the GRESB"
\* and the phrases about stars:
\* "3 star GRESB"
\* "7 star GRESB"
\* "GRESB 4 star"
\* "GRESB 7 star"
\* "achieved 5 stars in GRESB"
\* "achieved 7 stars in GRESB"
\* "2-star rating"
\* "9-star GRESB rating"
ScorePhrases ==
  { <<"G", "R", "E", "S", "B", " ", "s", "c", "o", "r", "e", ":", " ", "8", "3">>,
    <<"G", "R", "E", "S", "B", " ", "s", "c", "o", "r", "e", ":", " ", "1", "4", "0">>,
    <<"G", "R", "E", "S", "B", " ", "s", "c", "o", "r", "e", ":", " ", "1", "4", "0", "0", "0", "/", "1", "0", "0", " ", "G", "R", "E", "S", "B">>,
    <<"s", "c", "o", "r", "e", "d", " ", "0", " ", "i", "n", " ", "G", "R", "E", "S", "B">>,
    <<"s", "c", "o", "r", "e", "d", " ", "1", "0", "1", " ", "i", "n", " ", "G", "R", "E", "S", "B">>,
    <<"5", "/", "1", "0", "0", " ", "G", "R", "E", "S", "B">>,
    <<"G", "R", "E", "S", "B", " ", "s", "c", "o", "r", "e", ":", " ", "1", "4", "0", "/", "1", "0", "0", " ", "G", "R", "E", "S", "B">>,
    <<"G", "R", "E", "S", "B", " ", "a", "w", "a", "r", "d", "e", "d", " ", "1", "0", "0", " ", "p", "o", "i", "n", "t", "s">>,
    <<"G", "R", "E", "S", "B", " ", "a", "w", "a", "r", "d", "e", "d", " ", "1", "4", "0", " ", "p", "o", "i", "n", "t", "s">>,
    <<"a", "c", "h", "i", "e", "v", "e", "d", " ", "7", " ", "i", "n", " ", "t", "h", "e", " ", "G", "R", "E", "S", "B">>,
    <<"a", "c", "h", "i", "e", "v", "e", "d", " ", "2", "0", "0", " ", "i", "n", " ", "t", "h", "e", " ", "G", "R", "E", "S", "B">> }

StarPhrases ==
  { <<"3", " ", "s", "t", "a", "r", " ", "G", "R", "E", "S", "B">>,
    <<"7", " ", "s", "t", "a", "r", " ", "G", "R", "E", "S", "B">>,
    <<"G", "R", "E", "S", "B", " ", "4", " ", "s", "t", "a", "r">>,
    <<"G", "R", "E", "S", "B", " ", "7", " ", "s", "t", "a", "r">>,
    <<"a", "c", "h", "i", "e", "v", "e", "d", " ", "5", " ", "s", "t", "a", "r", "s", " ", "i", "n", " ", "G", "R", "E", "S", "B">>,
    <<"a", "c", "h", "i", "e", "v", "e", "d", " ", "7", " ", "s", "t", "a", "r", "s", " ", "i", "n", " ", "G", "R", "E", "S", "B">>,
    <<"2", "-", "s", "t", "a", "r", " ", "r", "a", "t", "i", "n", "g">>,
    <<"9", "-", "s", "t", "a", "r", " ", "G", "R", "E", "S", "B", " ", "r", "a", "t", "i", "n", "g">> }

GresbPhrases == ScorePhrases \cup StarPhrases

\* The page texts given to extract_gresb_rating: at most MaxPhrases phrases
\* about one field, or a pair of phrases about any fields.
GresbTexts ==
  TextsOf(ScorePhrases) \cup TextsOf(StarPhrases)
    \cup {Join(<<p, q>>) : p \in GresbPhrases, q \in GresbPhrases}

\* "ESG Risk Rating: 16.8"
\* "Risk Rating 250"
\* "Score: 0"
\* "Score: 100.5"
\* "Top 25"
\* "Negligible Risk"
\* "Low Risk"
\* "Medium Risk"
\* "High Risk"
\* "Severe"
\* "Management of ESG Material Risk is Strong"
SustPhrases ==
  { <<"E", "S", "G", " ", "R", "i", "s", "k", " ", "R", "a", "t", "i", "n", "g", ":", " ", "1", "6", ".", "8">>,
    <<"R", "i", "s", "k", " ", "R", "a", "t", "i", "n", "g", " ", "2", "5", "0">>,
    <<"S", "c", "o", "r", "e", ":", " ", "0">>,
    <<"S", "c", "o", "r", "e", ":", " ", "1", "0", "0", ".", "5">>,
    <<"T", "o", "p", " ", "2", "5">>,
    <<"N", "e", "g", "l", "i", "g", "i", "b", "l", "e", " ", "R", "i", "s", "k">>,
    <<"L", "o", "w", " ", "R", "i", "s", "k">>,
    <<"M", "e", "d", "i", "u", "m", " ", "R", "i", "s", "k">>,
    <<"H", "i", "g", "h", " ", "R", "i", "s", "k">>,
    <<"S", "e", "v", "e", "r", "e">>,
    <<"M", "a", "n", "a", "g", "e", "m", "e", "n", "t", " ", "o", "f", " ", "E", "S", "G", " ", "M", "a", "t", "e", "r", "i", "a", "l", " ", "R", "i", "s", "k", " ", "i", "s", " ", "S", "t", "r", "o", "n", "g">> }

NoElements == [raises |-> FALSE, texts |-> <<>>]

\* What the score selector may give: nothing, an element with a score, one
\* with a number above 100, elements without and with a number, a zero, an error.
ElementLists ==
  { NoElements,
    [raises |-> FALSE, texts |-> << <<"1", "6", ".", "8">> >>],
    [raises |-> FALSE, texts |-> << <<"2", "5", "0">> >>],
    [raises |-> FALSE, texts |-> << <<"n", "/", "a">>, <<" ", "7", " ">> >>],
    [raises |-> FALSE, texts |-> << <<"0">> >>],
    [raises |-> TRUE, texts |-> <<>>] }

\* gresb_info as extract_gresb_rating initialises it.
NoInfo == [score |-> None, stars |-> None, score_tried |-> 0, stars_tried |-> 0]

\* ------------------------------------------------ logo_extractor.py: names

\* re.sub(r'[^\w\s-]', '', name) keeps these characters
KeptInFilename(c) == IsWord(c) \/ IsSpace(c) \/ c = "-"
\* [-\s]
IsSeparator(c) == IsSpace(c) \/ c = "-"

\* re.sub(r'[-\s]+', '_', cleaned): every run of separators becomes one "_"
RECURSIVE CollapseSeparators(_, _)
CollapseSeparators(cleaned, i) ==
  IF i > Len(cleaned) THEN <<>>
  ELSE IF ~IsSeparator(cleaned[i]) THEN <<cleaned[i]>> \o CollapseSeparators(cleaned, i + 1)
  ELSE IF i > 1 /\ IsSeparator(cleaned[i - 1]) THEN CollapseSeparators(cleaned, i + 1)
  ELSE <<"_">> \o CollapseSeparators(cleaned, i + 1)

\* str.lower on one character: U+0130 becomes "i" followed by U+0307, the
\* combining dot above (Unicode SpecialCasing); every other character of the
\* alphabet here is mapped to one character.
LowerOf(c) == IF c = "U0130" THEN <<"i", "U0307">> ELSE <<LowerChar(c)>>

RECURSIVE str_lower(_)
str_lower(t) == IF t = <<>> THEN <<>> ELSE LowerOf(Head(t)) \o str_lower(Tail(t))

clean_filename(name) ==
  LET cleaned == SelectSeq(name, KeptInFilename)
  IN str_lower(CollapseSeparators(cleaned, 1))

\* f"{self.clean_filename(company_name)}_logo.png"
LogoFilename(name) == clean_filename(name) \o <<"_", "l", "o", "g", "o", ".", "p", "n", "g">>

NotSpaceNorAmpersand(c) == c # " " /\ c # "&"
\* f"{company_name.lower().replace(' ', '').replace('&', '')}.com"
GuessedDomain(company_name) ==
  SelectSeq(str_lower(company_name), NotSpaceNorAmpersand) \o <<".", "c", "o", "m">>

\* ----------------------------------------- logo_extractor.py: the providers

\* The services with Logo.dev and Brandfetch in each other's place.
services_brandfetch_second == <<"Clearbit", "Brandfetch", "Logo.dev", "Google Favicons">>

\* The services without the last one.
services_without_favicons == <<"Clearbit", "Logo.dev", "Brandfetch">>

services == <<"Clearbit", "Logo.dev", "Brandfetch", "Google Favicons">>

\* except requests.RequestException: the errors of the request only.
IsRequestException(exc) == exc = "Timeout"

\* except Exception: every exception but the interrupt of the process
IsException(exc) == exc # "KeyboardInterrupt"

\* domain is None: the empty string counts as a domain.
DomainIsNone(domain) == domain = None

\* not domain: None and the empty string
NoDomain(domain) == domain = None \/ domain[1] = <<>>

\* What a fetch function gives: exc is the exception that leaves it, domain the
\* domain of the URL it requested, status the status of the response (0 when
\* there was none), image_data what it returns.
FetchResult(exc, domain, status, image_data) ==
  [exc |-> exc, domain |-> domain, status |-> status, image_data |-> image_data]

\* The common shape of the four fetch functions; acceptable is the condition
\* under which the function returns response.content.
Fetch(company_name, domain, resp, acceptable) ==
  IF NoDomain(domain) /\ company_name = None
  THEN FetchResult(Some("AttributeError"), None, 0, None)
  ELSE LET used == IF NoDomain(domain) THEN GuessedDomain(company_name[1]) ELSE domain[1]
       IN IF resp.kind = "raise"
          THEN IF IsException(resp.exc)
               THEN FetchResult(None, Some(used), 0, None)
               ELSE FetchResult(Some(resp.exc), Some(used), 0, None)
          ELSE IF acceptable
               THEN FetchResult(None, Some(used), resp.status, Some(resp.content))
               ELSE FetchResult(None, Some(used), resp.status, None)

fetch_from_clearbit(company_name, domain, resp) ==
  Fetch(company_name, domain, resp, resp.status = 200)
fetch_from_logo_dev(company_name, domain, resp) ==
  Fetch(company_name, domain, resp, resp.status = 200)
fetch_from_brandfetch(company_name, domain, resp) ==
  Fetch(company_name, domain, resp, resp.status = 200)
\* The favicon fetch without the size condition.
fetch_from_google_favicon_any_size(company_name, domain, resp) ==
  Fetch(company_name, domain, resp, resp.status = 200)
fetch_from_google_favicon(company_name, domain, resp) ==
  Fetch(company_name, domain, resp, resp.status = 200 /\ resp.content.length > 1000)

\* fetch_function(company_name, domain) for the service at index i
fetch_function(i, company_name, domain, resp) ==
  CASE i = 1 -> fetch_from_clearbit(company_name, domain, resp)
    [] i = 2 -> fetch_from_logo_dev(company_name, domain, resp)
    [] i = 3 -> fetch_from_brandfetch(company_name, domain, resp)
    [] OTHER -> fetch_from_google_favicon(company_name, domain, resp)

\* if image_data: None and empty bytes are false
HasImageData(image_data) == image_data # None /\ image_data[1].length > 0

\* img.convert('RGBA') for the modes RGB and P; any other mode is saved as it is
SavedMode(mode) == IF mode \in {"RGB", "P"} THEN "RGBA" ELSE mode

\* img.save(filepath, 'PNG'): the modes the PNG writer takes; any other mode
\* (CMYK) makes it raise
PngModes == {"1", "L", "LA", "P", "RGB", "RGBA"}

\* process_image: the path and mode of the saved file, None when Image.open,
\* clean_filename or img.save raised (disk_ok: img.save and stat succeed).
process_image(image_data, company_name, disk_ok) ==
  IF \/ image_data.length = 0 \/ image_data.mode = "corrupt"
     \/ company_name = None
     \/ SavedMode(image_data.mode) \notin PngModes \/ ~disk_ok
  THEN None
  ELSE Some([path |-> LogoFilename(company_name[1]), mode |-> SavedMode(image_data.mode)])

\* --------------------------------------------------------- the logo inputs

MaxCompanies == 2

\* The companies a list is made of: "S&P" without a domain, "S & P" with the
\* empty string as its domain, "SP" with the domain spglobal.com, an entry with
\* neither name nor domain, an entry with a domain only.
CompanyChoices ==
  { [name |-> Some(<<"S", "&", "P">>), domain |-> None],
    [name |-> Some(<<"S", " ", "&", " ", "P">>), domain |-> Some(<<>>)],
    [name |-> Some(<<"S", "P">>), domain |-> Some(<<"s", "p", "g", "l", "o", "b", "a", "l", ".", "c", "o", "m">>)],
    [name |-> None, domain |-> None],
    [name |-> None, domain |-> Some(<<"s", "p", "g", "l", "o", "b", "a", "l", ".", "c", "o", "m">>)] }

RECURSIVE ListsOf(_, _)
ListsOf(S, n) ==
  IF n = 0 THEN {<<>>}
  ELSE ListsOf(S, n - 1) \cup {Append(l, x) : l \in {m \in ListsOf(S, n - 1) : Len(m) = n - 1}, x \in S}

\* The lists of at most MaxCompanies companies, no entry twice in a list
CompanyLists ==
  {l \in ListsOf(CompanyChoices, MaxCompanies) : \A i, j \in 1..Len(l) : l[i] = l[j] => i = j}

Content(length, mode) == [length |-> length, mode |-> mode]
NoContent == Content(0, "corrupt")
NoResponse == [kind |-> "none", exc |-> "", status |-> 0, content |-> NoContent]

\* What requests.get can do: raise (a timeout, an interrupt of the process) or
\* give a response: 404 with an error page, 200 with no bytes, 200 with an RGB
\* image of 1000 bytes, with a greyscale or a CMYK image of 1001 bytes, with
\* 1001 bytes that are no image.
Responses ==
  { [kind |-> "raise", exc |-> "Timeout", status |-> 0, content |-> NoContent],
    [kind |-> "raise", exc |-> "KeyboardInterrupt", status |-> 0, content |-> NoContent],
    [kind |-> "http", exc |-> "", status |-> 404, content |-> Content(1001, "corrupt")],
    [kind |-> "http", exc |-> "", status |-> 200, content |-> NoContent],
    [kind |-> "http", exc |-> "", status |-> 200, content |-> Content(1000, "RGB")],
    [kind |-> "http", exc |-> "", status |-> 200, content |-> Content(1001, "L")],
    [kind |-> "http", exc |-> "", status |-> 200, content |-> Content(1001, "CMYK")],
    [kind |-> "http", exc |-> "", status |-> 200, content |-> Content(1001, "corrupt")] }

NoLogoRun ==
  /\ companies = <<>>
  /\ ci = 0
  /\ si = 0
  /\ attempts = <<>>
  /\ response = NoResponse
  /\ downloaded = <<>>
  /\ failed = <<>>
  /\ returned = <<>>
  /\ files = {}
  /\ exception = None

NoRatingRun ==
  /\ driver = None
  /\ browsers = <<>>
  /\ ti = 0
  /\ ui = 0
  /\ loads = <<>>
  /\ results = <<>>
  /\ outputs = {}
  /\ printed = {}

NoCalls ==
  /\ file = None
  /\ name_given = None
  /\ filename = None
  /\ calls = <<>>

\* --------------------------------------------------- the rating extraction

InitRating ==
  /\ \/ /\ program = "gresb"
        /\ page_text \in GresbTexts
        /\ score_elements = NoElements
     \/ /\ program = "sust"
        /\ page_text \in TextsOf(SustPhrases)
        /\ score_elements \in ElementLists
  /\ pc = "start"
  /\ gresb_info = NoInfo
  /\ result = EmptyResult
  /\ NoLogoRun
  /\ NoRatingRun
  /\ NoCalls

\* gresb_scraper.py: extract_gresb_rating(page_text)
ExtractGresbRating ==
  /\ program = "gresb" /\ pc = "start"
  /\ gresb_info' = extract_gresb_rating(page_text)
  /\ pc' = "done"
  /\ UNCHANGED <<program, callVars, page_text, score_elements, result, logoVars, runVars>>

\* scraper.py: the try block of one company, the page loaded
SustScrapePage ==
  /\ program = "sust" /\ pc = "start"
  /\ result' = ScrapePage(page_text, score_elements)
  /\ pc' = "done"
  /\ UNCHANGED <<program, callVars, page_text, score_elements, gresb_info, logoVars, runVars>>

\* scraper.py: the except block of one company, driver.get or find_element raised
SustPageRaises ==
  /\ program = "sust" /\ pc = "start"
  /\ result' = EmptyResult
  /\ pc' = "raised"
  /\ UNCHANGED <<program, callVars, page_text, score_elements, gresb_info, logoVars, runVars>>

NextRating == ExtractGresbRating \/ SustScrapePage \/ SustPageRaises

vars == <<program, pc, ratingVars, logoVars, runVars, callVars>>

SpecRating == InitRating /\ [][NextRating]_vars

\* ------------------------------------------------------- the logo extraction

InitLogo ==
  /\ program = "logo"
  /\ pc = "loop"
  /\ page_text = <<>>
  /\ score_elements = NoElements
  /\ gresb_info = NoInfo
  /\ result = EmptyResult
  /\ companies \in CompanyLists
  /\ ci = 0
  /\ si = 0
  /\ attempts = <<>>
  /\ response = NoResponse
  /\ downloaded = <<>>
  /\ failed = <<>>
  /\ returned = <<>>
  /\ files = {}
  /\ exception = None
  /\ NoRatingRun
  /\ NoCalls

\* extract_multiple takes the next company and calls extract_logo, which starts
\* at the first service.
StartCompany ==
  /\ program = "logo" /\ pc = "loop"
  /\ ci < Len(companies)
  /\ ci' = ci + 1
  /\ si' = 1
  /\ attempts' = <<>>
  /\ pc' = "services"
  /\ UNCHANGED <<program, callVars, ratingVars, runVars, companies, response, downloaded, failed, returned, files, exception>>

Attempt(i, fetched, accepted) ==
  [service |-> services[i], domain |-> fetched.domain, status |-> fetched.status,
   raised |-> fetched.exc, accepted |-> accepted]

\* One turn of the loop over services in extract_logo: the fetch, process_image
\* when there are bytes, the entry in downloaded and the return when the file
\* was saved, the except clause when the fetch raised.
TryService ==
  /\ program = "logo" /\ pc = "services"
  /\ si <= Len(services)
  /\ \E resp \in Responses, disk_ok \in BOOLEAN :
       LET company_name == companies[ci].name
           fetched == fetch_function(si, company_name, companies[ci].domain, resp)
           filepath == IF fetched.exc = None /\ HasImageData(fetched.image_data)
                       THEN process_image(fetched.image_data[1], company_name, disk_ok)
                       ELSE None
       IN /\ attempts' = Append(attempts, Attempt(si, fetched, filepath # None))
          /\ response' = IF fetched.domain = None THEN NoResponse ELSE resp
          /\ IF fetched.exc # None /\ ~IsException(fetched.exc[1])
             THEN /\ pc' = "raised"
                  /\ exception' = fetched.exc
                  /\ UNCHANGED <<si, downloaded, returned, files>>
             ELSE IF filepath # None
             THEN /\ downloaded' = Append(downloaded, [company |-> company_name,
                                                       path |-> filepath[1].path,
                                                       service |-> services[si]])
                  /\ files' = {f \in files : f.path # filepath[1].path} \cup {filepath[1]}
                  /\ returned' = Append(returned, TRUE)
                  /\ pc' = "sleep"
                  /\ UNCHANGED <<si, exception>>
             ELSE /\ si' = si + 1
                  /\ UNCHANGED <<pc, downloaded, returned, files, exception>>
  /\ UNCHANGED <<program, callVars, ratingVars, runVars, companies, ci, failed>>

\* failed kept as a set of names: a name already in it is not added again.
failed_add(names, company_name) ==
  IF \E k \in 1..Len(names) : names[k] = company_name THEN names ELSE Append(names, company_name)

\* self.failed.append(company_name)
failed_append(names, company_name) == Append(names, company_name)

\* The end of extract_logo after the loop: no service gave a saved file.
ExtractLogoFails ==
  /\ program = "logo" /\ pc = "services"
  /\ si > Len(services)
  /\ failed' = failed_append(failed, companies[ci].name)
  /\ returned' = Append(returned, FALSE)
  /\ pc' = "sleep"
  /\ UNCHANGED <<program, callVars, ratingVars, runVars, companies, ci, si, attempts, response, downloaded, files, exception>>

\* extract_multiple: time.sleep(1) after extract_logo returned
SleepBetweenCompanies ==
  /\ program = "logo" /\ pc = "sleep"
  /\ pc' = "loop"
  /\ UNCHANGED <<program, callVars, ratingVars, logoVars, runVars>>

\* extract_multiple: the list is exhausted, print_summary
PrintSummary ==
  /\ program = "logo" /\ pc = "loop"
  /\ ci = Len(companies)
  /\ pc' = "done"
  /\ UNCHANGED <<program, callVars, ratingVars, logoVars, runVars>>

NextLogo ==
  StartCompany \/ TryService \/ ExtractLogoFails \/ SleepBetweenCompanies \/ PrintSummary

SpecLogo == InitLogo /\ [][NextLogo]_vars

\* ------------------------------------------------- the rating runs: inputs

MaxTargets == 2
MaxUrls == 2

\* self.companies.keys(): the first companies of the database, in its order
GresbCompanies ==
  SubSeq(<<"GDS GROUP", "ST Telemedia Global Data Centres", "AirTrunk">>, 1, MaxTargets)

\* company_data['urls'] with the first url in every place
first_url_only(company_name) == [k \in 1..MaxUrls |-> <<company_name, 1>>]

\* company_data['urls']: the first urls of a company, each named by the company
\* and its place in the list (no url stands twice in the database)
urls(company_name) == [k \in 1..MaxUrls |-> <<company_name, k>>]

\* scraper.py: the first entries of companies, each with its one url
SustCompanies ==
  SubSeq(<<"Digital Realty Trust", "DigitalBridge Group", "Stack Infrastructure Inc">>, 1, MaxTargets)

\* What a page load of gresb_scraper.py can do: raise (a timeout, an error of
\* the browser, an interrupt of the process) or render a page: one without a
\* rating, with a score, with a score of 0, with a star rating.
GresbPages ==
  { <<>>,
    <<"G", "R", "E", "S", "B", " ", "s", "c", "o", "r", "e", ":", " ", "8", "3">>,
    <<"G", "R", "E", "S", "B", " ", "s", "c", "o", "r", "e", ":", " ", "0">>,
    <<"G", "R", "E", "S", "B", " ", "4", " ", "s", "t", "a", "r">> }

PageOutcomes ==
  {[kind |-> "page", text |-> t] : t \in GresbPages}
    \cup {[kind |-> k, text |-> <<>>] : k \in {"TimeoutException", "WebDriverException", "KeyboardInterrupt"}}

\* What a page load of scraper.py can do: raise, or render a page: one without
\* a rating, one with a score and a risk level in its text, one with a score
\* element.
SustPages ==
  { [text |-> <<>>, elements |-> NoElements],
    [text |-> <<"E", "S", "G", " ", "R", "i", "s", "k", " ", "R", "a", "t", "i", "n", "g", ":", " ", "1", "6", ".", "8", " ", "L", "o", "w", " ", "R", "i", "s", "k">>, elements |-> NoElements],
    [text |-> <<>>, elements |-> [raises |-> FALSE, texts |-> << <<"1", "6", ".", "8">> >>]] }

SustOutcomes ==
  {[kind |-> "page", page |-> q] : q \in SustPages}
    \cup {[kind |-> k, page |-> [text |-> <<>>, elements |-> NoElements]] :
            k \in {"WebDriverException", "KeyboardInterrupt"}}

\* ------------------------------------------- gresb_scraper.py: the browser

\* A browser that was started: by is the function that started it, quits the
\* number of quit() calls on it, quit_raised whether the last of them raised.
Browser(by) == [by |-> by, quits |-> 0, quit_raised |-> FALSE]

\* handle.quit()
driver_quit(brs, handle, quit_ok) ==
  [brs EXCEPT ![handle].quits = @ + 1, ![handle].quit_raised = ~quit_ok]

\* close_driver without its try statement: an exception of quit() leaves it
\* and the handle stays.
close_driver_without_try(drv, brs, quit_ok) ==
  [driver |-> IF drv # None /\ ~quit_ok THEN drv ELSE None,
   browsers |-> IF drv = None THEN brs ELSE driver_quit(brs, drv[1], quit_ok),
   raised |-> drv # None /\ ~quit_ok]

\* close_driver: quit() on the handle if there is one, its exception caught;
\* self.driver = None in the finally clause
close_driver(drv, brs, quit_ok) ==
  [driver |-> None,
   browsers |-> IF drv = None THEN brs ELSE driver_quit(brs, drv[1], quit_ok),
   raised |-> FALSE]

\* start_driver without the exception when no browser starts
start_driver_never_raises(drv, brs, available) ==
  IF drv = None /\ available
  THEN [driver |-> Some(Len(brs) + 1), browsers |-> Append(brs, Browser("start_driver")),
        raised |-> FALSE]
  ELSE [driver |-> drv, browsers |-> brs, raised |-> FALSE]

\* start_driver: nothing when there is a handle; otherwise Chrome, Chrome with
\* the service, Firefox in turn (available: one of them starts), and the
\* exception "No browser driver available" when none does
start_driver(drv, brs, available) ==
  IF drv # None THEN [driver |-> drv, browsers |-> brs, raised |-> FALSE]
  ELSE IF available
  THEN [driver |-> Some(Len(brs) + 1), browsers |-> Append(brs, Browser("start_driver")),
        raised |-> FALSE]
  ELSE [driver |-> None, browsers |-> brs, raised |-> TRUE]

\* ---------------------------------------- gresb_scraper.py: scrape_company

\* scrape_page: except TimeoutException, except Exception
CaughtByScrapePage(exc) == exc \in {"TimeoutException", "WebDriverException"}

\* Python's truth value of a score or a star count: None and 0 are false
TruthyInt(opt) == opt # None /\ opt[1] # 0

\* any([gresb_info.get('score'), gresb_info.get('stars')])
HasRating(info) == TruthyInt(info.score) \/ TruthyInt(info.stars)

\* The result of scrape_company: as initialised, and with the rating of a page
NoRatingResult(company_name) ==
  [company |-> company_name, gresb_score |-> None, gresb_stars |-> None, source_url |-> None]
\* The result with a score missing on the page taken from an earlier page of
\* the company.
RatingResultMerged(company_name, info, url) ==
  LET earlier == {i \in 1..Len(loads) :
                    loads[i].kind = "page" /\ extract_gresb_rating(loads[i].page).score # None}
  IN [company |-> company_name,
      gresb_score |-> IF info.score = None /\ earlier # {}
                      THEN extract_gresb_rating(loads[CHOOSE i \in earlier : TRUE].page).score
                      ELSE info.score,
      gresb_stars |-> info.stars,
      source_url |-> Some(url)]

RatingResult(company_name, info, url) ==
  [company |-> company_name, gresb_score |-> info.score, gresb_stars |-> info.stars,
   source_url |-> Some(url)]

\* A driver.get call: the target it is for, the url, the browser that loads it,
\* and what came of it: kind is "page" or the exception raised, page what was
\* rendered (gresb_scraper.py: the text; scraper.py: the text and the elements)
Load(target, url, kind, page) ==
  [target |-> target, url |-> url, browser |-> driver, kind |-> kind, page |-> page]

\* for url in company_data['urls'] with one url only
OneUrlOnly(i) == i > 1

\* for url in company_data['urls']: the loop is over after the last url
UrlsExhausted(i) == i > Len(urls(GresbCompanies[1]))

\* ----------------------------------------------- gresb_scraper.py: the run

\* The csv and the json file of export_results
GresbOutputs == <<"gresb_ratings.csv", "gresb_ratings.json">>

\* The csv and the xlsx file of scrape_sustainalytics
SustOutputs == <<"sustainalytics_scores.csv", "sustainalytics_scores.xlsx">>

InitRun ==
  /\ \/ program = "gresb_run" /\ pc = "scrape_all"
     \/ program = "sust_run" /\ pc = "setup_selenium"
  /\ page_text = <<>>
  /\ score_elements = NoElements
  /\ gresb_info = NoInfo
  /\ result = EmptyResult
  /\ NoLogoRun
  /\ NoRatingRun
  /\ NoCalls

\* The finally clause of scrape_all
Finally(quit_ok) ==
  LET closed == close_driver(driver, browsers, quit_ok)
  IN driver' = closed.driver /\ browsers' = closed.browsers

\* scrape_all: check_chrome_driver starts a test browser and quits it; when the
\* test fails the user is asked whether to continue, and scrape_all returns []
\* unless the answer is y.
CheckChromeDriver ==
  /\ program = "gresb_run" /\ pc = "scrape_all"
  /\ \E chrome \in {"works", "quit raises", "does not start"}, answer \in {"y", "n"} :
       /\ browsers' = IF chrome = "does not start" THEN browsers
                      ELSE driver_quit(Append(browsers, Browser("check_chrome_driver")),
                                       Len(browsers) + 1, chrome = "works")
       /\ printed' = IF chrome = "works" THEN printed ELSE printed \cup {"Chrome/ChromeDriver setup issues detected"}
       /\ pc' = IF chrome = "works" \/ answer = "y" THEN "start_driver" ELSE "returned"
  /\ UNCHANGED <<program, callVars, ratingVars, logoVars, driver, ti, ui, loads, results, outputs>>

\* scrape_all: self.start_driver(); when it raises, the except clause reports
\* the error and the finally clause runs
StartDriver ==
  /\ program = "gresb_run" /\ pc = "start_driver"
  /\ \E available \in BOOLEAN, quit_ok \in BOOLEAN :
       LET started == start_driver(driver, browsers, available)
           closed == close_driver(started.driver, started.browsers, quit_ok)
       IN IF started.raised
          THEN /\ printed' = printed \cup {"Fatal error during scraping"}
               /\ driver' = closed.driver /\ browsers' = closed.browsers
               /\ pc' = "returned"
          ELSE /\ driver' = started.driver /\ browsers' = started.browsers
               /\ pc' = "loop"
               /\ UNCHANGED printed
  /\ UNCHANGED <<program, callVars, ratingVars, logoVars, ti, ui, loads, results, outputs>>

\* scrape_all takes the next company and calls scrape_company, which starts at
\* the first url with no page loaded
NextCompany ==
  /\ program = "gresb_run" /\ pc = "loop"
  /\ ti < Len(GresbCompanies)
  /\ ti' = ti + 1
  /\ ui' = 1
  /\ loads' = <<>>
  /\ page_text' = <<>>
  /\ gresb_info' = NoInfo
  /\ pc' = "urls"
  /\ UNCHANGED <<program, callVars, score_elements, result, logoVars, driver, browsers, results, outputs, printed>>

\* One turn of the loop over urls in scrape_company, up to the page text:
\* scrape_page loads the url; it returns None when the load raised an exception
\* that it catches, and the loop goes on.  An exception that leaves scrape_page
\* leaves scrape_company: the finally clause of scrape_all runs, after its
\* except clause unless the exception is an interrupt.
TryUrl ==
  /\ program = "gresb_run" /\ pc = "urls"
  /\ ~UrlsExhausted(ui)
  /\ \E outcome \in PageOutcomes :
       /\ loads' = Append(loads, Load(ti, urls(GresbCompanies[ti])[ui], outcome.kind,
                                      outcome.text))
       /\ IF outcome.kind = "page"
          THEN /\ page_text' = outcome.text
               /\ pc' = "page"
               /\ UNCHANGED <<ui, driver, browsers, printed>>
          ELSE IF CaughtByScrapePage(outcome.kind)
          THEN /\ ui' = ui + 1
               /\ UNCHANGED <<pc, page_text, driver, browsers, printed>>
          ELSE /\ \E quit_ok \in BOOLEAN : Finally(quit_ok)
               /\ IF IsException(outcome.kind)
                  THEN printed' = printed \cup {"Fatal error during scraping"} /\ pc' = "returned"
                  ELSE pc' = "interrupted" /\ UNCHANGED printed
               /\ UNCHANGED <<ui, page_text>>
  /\ UNCHANGED <<program, callVars, score_elements, gresb_info, result, logoVars, ti, results, outputs>>

\* The rest of the turn: scrape_page returns extract_gresb_rating(page_text);
\* with a rating the result is filled in, the loop is left, the result returned
\* and appended to self.results.
ExtractPage ==
  /\ program = "gresb_run" /\ pc = "page"
  /\ gresb_info' = extract_gresb_rating(page_text)
  /\ IF HasRating(gresb_info')
     THEN /\ results' = Append(results, RatingResult(GresbCompanies[ti], gresb_info',
                                                     urls(GresbCompanies[ti])[ui]))
          /\ pc' = "sleep"
          /\ UNCHANGED ui
     ELSE /\ ui' = ui + 1
          /\ pc' = "urls"
          /\ UNCHANGED results
  /\ UNCHANGED <<program, callVars, page_text, score_elements, result, logoVars,
                 driver, browsers, ti, loads, outputs, printed>>

\* The else clause of the loop over urls: no url gave a rating; the result is
\* returned as initialised and appended
NoRatingFound ==
  /\ program = "gresb_run" /\ pc = "urls"
  /\ UrlsExhausted(ui)
  /\ results' = Append(results, NoRatingResult(GresbCompanies[ti]))
  /\ pc' = "sleep"
  /\ UNCHANGED <<program, callVars, ratingVars, logoVars, driver, browsers, ti, ui, loads, outputs, printed>>

\* scrape_all: time.sleep(2) after scrape_company; an interrupt in it runs the
\* finally clause and leaves scrape_all
SleepAfterCompany ==
  /\ program = "gresb_run" /\ pc = "sleep"
  /\ \E interrupted \in BOOLEAN, quit_ok \in BOOLEAN :
       IF interrupted
       THEN Finally(quit_ok) /\ pc' = "interrupted"
       ELSE pc' = "loop" /\ UNCHANGED <<driver, browsers>>
  /\ UNCHANGED <<program, callVars, ratingVars, logoVars, ti, ui, loads, results, outputs, printed>>

\* scrape_all: the loop is exhausted, the finally clause, return self.results
ScrapeAllReturns ==
  /\ program = "gresb_run" /\ pc = "loop"
  /\ ti = Len(GresbCompanies)
  /\ \E quit_ok \in BOOLEAN : Finally(quit_ok)
  /\ pc' = "returned"
  /\ UNCHANGED <<program, callVars, ratingVars, logoVars, ti, ui, loads, results, outputs, printed>>

\* export_results: nothing without results; otherwise the csv file, then the
\* json file, an exception of either caught (written: how many got written)
export_results(res, written) ==
  IF res = <<>> THEN {} ELSE {GresbOutputs[k] : k \in 1..written}

\* main after scrape_all returned: if results, export_results; else the report
\* that no results were collected
MainExports ==
  /\ program = "gresb_run" /\ pc = "returned"
  /\ IF results # <<>>
     THEN /\ \E written \in 0..Len(GresbOutputs) : outputs' = outputs \cup export_results(results, written)
          /\ UNCHANGED printed
     ELSE /\ printed' = printed \cup {"No results were collected"}
          /\ UNCHANGED outputs
  /\ pc' = "done"
  /\ UNCHANGED <<program, callVars, ratingVars, logoVars, driver, browsers, ti, ui, loads, results>>

\* main: except KeyboardInterrupt
MainInterrupted ==
  /\ program = "gresb_run" /\ pc = "interrupted"
  /\ printed' = printed \cup {"Scraping interrupted by user"}
  /\ pc' = "done"
  /\ UNCHANGED <<program, callVars, ratingVars, logoVars, driver, browsers, ti, ui, loads, results, outputs>>

\* -------------------------------------------------------- scraper.py: the run

\* The record of a company in results: of a loaded page, and of the except block
SustRecord(company_name, r) ==
  [Company |-> company_name, ESG_Score |-> r.ESG_Score, Risk_Level |-> r.Risk_Level,
   Management |-> r.Management]

\* scrape_sustainalytics: setup_selenium starts the browser, or reports the
\* error and returns no driver, and scrape_sustainalytics returns
SetupSelenium ==
  /\ program = "sust_run" /\ pc = "setup_selenium"
  /\ \E started \in BOOLEAN :
       IF started
       THEN /\ browsers' = Append(browsers, Browser("setup_selenium"))
            /\ driver' = Some(Len(browsers) + 1)
            /\ pc' = "loop"
            /\ UNCHANGED printed
       ELSE /\ printed' = printed \cup {"Error setting up driver"}
            /\ pc' = "done"
            /\ UNCHANGED <<driver, browsers>>
  /\ UNCHANGED <<program, callVars, ratingVars, logoVars, ti, ui, loads, results, outputs>>

\* One turn of the loop over companies up to the page text: driver.get; when
\* it raised, the except block appends an empty record; an interrupt leaves
\* scrape_sustainalytics
SustCompany ==
  /\ program = "sust_run" /\ pc = "loop"
  /\ ti < Len(SustCompanies)
  /\ ti' = ti + 1
  /\ \E outcome \in SustOutcomes :
       /\ loads' = <<Load(ti + 1, <<SustCompanies[ti + 1], 1>>, outcome.kind, outcome.page)>>
       /\ page_text' = outcome.page.text
       /\ score_elements' = outcome.page.elements
       /\ result' = EmptyResult
       /\ IF outcome.kind = "page"
          THEN /\ pc' = "page"
               /\ UNCHANGED results
          ELSE IF IsException(outcome.kind)
          THEN /\ results' = Append(results, SustRecord(SustCompanies[ti + 1], EmptyResult))
               /\ pc' = "sleep"
          ELSE /\ pc' = "interrupted"
               /\ UNCHANGED results
  /\ UNCHANGED <<program, callVars, gresb_info, logoVars, driver, browsers, ui, outputs, printed>>

\* The rest of the try block: the score, the risk level and the management
\* level of the page, results.append(result)
SustPage ==
  /\ program = "sust_run" /\ pc = "page"
  /\ result' = ScrapePage(page_text, score_elements)
  /\ results' = Append(results, SustRecord(SustCompanies[ti], result'))
  /\ pc' = "sleep"
  /\ UNCHANGED <<program, callVars, page_text, score_elements, gresb_info, logoVars,
                 driver, browsers, ti, ui, loads, outputs, printed>>

\* if i < len(companies): time.sleep(2); an interrupt in it leaves
\* scrape_sustainalytics
SustSleep ==
  /\ program = "sust_run" /\ pc = "sleep"
  /\ \E interrupted \in BOOLEAN :
       pc' = IF interrupted /\ ti < Len(SustCompanies) THEN "interrupted" ELSE "loop"
  /\ UNCHANGED <<program, callVars, ratingVars, logoVars, runVars>>

\* After the loop: driver.quit(), the DataFrame, to_csv, to_excel in its try;
\* an exception of quit() or of to_csv leaves scrape_sustainalytics
SustFinish ==
  /\ program = "sust_run" /\ pc = "loop"
  /\ ti = Len(SustCompanies)
  /\ \E quit_ok \in BOOLEAN, written \in 0..Len(SustOutputs) :
       /\ browsers' = driver_quit(browsers, driver[1], quit_ok)
       /\ IF quit_ok /\ written > 0
          THEN outputs' = outputs \cup {SustOutputs[k] : k \in 1..written} /\ pc' = "done"
          ELSE pc' = "raised" /\ UNCHANGED outputs
  /\ UNCHANGED <<program, callVars, ratingVars, logoVars, driver, ti, ui, loads, results, printed>>

NextRun ==
  \/ CheckChromeDriver \/ StartDriver \/ NextCompany \/ TryUrl \/ ExtractPage
  \/ NoRatingFound \/ SleepAfterCompany \/ ScrapeAllReturns \/ MainExports
  \/ MainInterrupted
  \/ SetupSelenium \/ SustCompany \/ SustPage \/ SustSleep \/ SustFinish

SpecRun == InitRun /\ [][NextRun]_vars

\* The logo extraction and the rating runs, for what holds of both
SpecPipelines == (InitLogo \/ InitRun) /\ [][NextLogo \/ NextRun]_vars

\* ------------------------------------ logo_extractor.py: main with args.file

MaxLines == 2

\* The lines of a text file, each with its line end: a blank line, a comment
\* after a space, the name "A #", and " S&P , a,b " with two commas.
LineChoices ==
  { <<" ", "\n">>,
    <<" ", "#", "A", "\n">>,
    <<"A", " ", "#", "\n">>,
    <<" ", "S", "&", "P", " ", ",", " ", "a", ",", "b", " ", "\n">> }

\* What json.load gives: an array (empty, or of one company), an object, or a
\* JSONDecodeError for a file that is no JSON.
JsonValues ==
  { [kind |-> "list", items |-> <<>>],
    [kind |-> "list", items |-> << [name |-> Some(<<"S", "&", "P">>), domain |-> None] >>],
    [kind |-> "dict", items |-> <<>>],
    [kind |-> "invalid", items |-> <<>>] }

NoJson == [kind |-> "invalid", items |-> <<>>]

\* The files args.file can name: a missing one, text files of at most MaxLines
\* lines, .json files.
Files ==
  { [exists |-> FALSE, suffix |-> ".txt", lines |-> <<>>, data |-> NoJson] }
  \cup { [exists |-> TRUE, suffix |-> ".txt", lines |-> ls, data |-> NoJson] : ls \in ListsOf(LineChoices, MaxLines) }
  \cup { [exists |-> TRUE, suffix |-> ".json", lines |-> <<>>, data |-> d] : d \in JsonValues }

\* line.startswith('#')
StartsWithHash(line) == line # <<>> /\ line[1] = "#"

\* The last "," of a line
LastComma(line) == CHOOSE i \in DOMAIN line : line[i] = "," /\ \A j \in DOMAIN line : j > i => line[j] # ","

\* line.split(',', 1) splits at the first ","
FirstComma(line) == CHOOSE i \in DOMAIN line : line[i] = "," /\ \A j \in DOMAIN line : j < i => line[j] # ","

\* The entries one line of a text file adds to companies
LineEntries(raw) ==
  LET line == Strip(raw)
  IN IF line # <<>> /\ ~StartsWithHash(line)
     THEN IF "," \in Range(line)
          THEN LET k == FirstComma(line)
               IN << [name |-> Some(Strip(SubSeq(line, 1, k - 1))),
                      domain |-> Some(Strip(SubSeq(line, k + 1, Len(line))))] >>
          ELSE << [name |-> Some(line), domain |-> None] >>
     ELSE <<>>

RECURSIVE TextEntries(_)
TextEntries(lines) ==
  IF lines = <<>> THEN <<>> ELSE LineEntries(Head(lines)) \o TextEntries(Tail(lines))

Loaded(exc, entries) == [raised |-> exc, companies |-> entries]

load_companies_from_file(f) ==
  IF ~f.exists THEN Loaded(Some("FileNotFoundError"), <<>>)
  ELSE IF f.suffix = ".json"
       THEN IF f.data.kind = "invalid" THEN Loaded(Some("JSONDecodeError"), <<>>)
            ELSE IF f.data.kind = "list" THEN Loaded(None, f.data.items)
            ELSE Loaded(Some("ValueError"), <<>>)
       ELSE Loaded(None, TextEntries(f.lines))

NoPage ==
  /\ page_text = <<>>
  /\ score_elements = NoElements
  /\ gresb_info = NoInfo
  /\ result = EmptyResult

\* main is called with -f and without -c.
InitMain ==
  /\ program = "main"
  /\ pc = "load"
  /\ file \in {Some(f) : f \in Files}
  /\ name_given = None
  /\ filename = None
  /\ calls = <<>>
  /\ NoPage
  /\ NoLogoRun
  /\ NoRatingRun

\* main: the try block around load_companies_from_file; the list goes to
\* extract_multiple, an exception ends the process with sys.exit(1).
LoadCompanies ==
  /\ program = "main" /\ pc = "load"
  /\ LET loaded == load_companies_from_file(file[1])
     IN IF loaded.raised # None
        THEN /\ pc' = "sys.exit(1)"
             /\ printed' = printed \cup {"Error loading file"}
             /\ UNCHANGED <<program, companies>>
        ELSE /\ program' = "logo"
             /\ pc' = "loop"
             /\ companies' = loaded.companies
             /\ UNCHANGED printed
  /\ UNCHANGED <<callVars, ratingVars, ci, si, attempts, response, downloaded, failed, returned, files, exception>>
  /\ UNCHANGED <<driver, browsers, ti, ui, loads, results, outputs>>

NextMain == LoadCompanies \/ NextLogo

SpecMain == InitMain /\ [][NextMain]_vars

\* ------------------------- gresb_scraper.py: start_driver and close_driver

MaxCalls == 5

InitDriver ==
  /\ program = "driver"
  /\ pc = "idle"
  /\ NoPage
  /\ NoLogoRun
  /\ NoRatingRun
  /\ NoCalls

\* A call on the scraper: the method, self.driver and the browsers before and
\* after it, whether it raised.
Call(method, after) ==
  [method |-> method, driver_before |-> driver, browsers_before |-> browsers,
   driver_after |-> after.driver, browsers_after |-> after.browsers, raised |-> after.raised]

\* scraper.start_driver()
CallStartDriver ==
  /\ program = "driver" /\ Len(calls) < MaxCalls
  /\ \E available \in BOOLEAN :
       LET started == start_driver(driver, browsers, available)
       IN /\ driver' = started.driver
          /\ browsers' = started.browsers
          /\ calls' = Append(calls, Call("start_driver", started))
  /\ UNCHANGED <<program, pc, file, name_given, filename, ratingVars, logoVars,
                 ti, ui, loads, results, outputs, printed>>

\* scraper.close_driver()
CallCloseDriver ==
  /\ program = "driver" /\ Len(calls) < MaxCalls
  /\ \E quit_ok \in BOOLEAN :
       LET closed == close_driver(driver, browsers, quit_ok)
       IN /\ driver' = closed.driver
          /\ browsers' = closed.browsers
          /\ calls' = Append(calls, Call("close_driver", closed))
  /\ UNCHANGED <<program, pc, file, name_given, filename, ratingVars, logoVars,
                 ti, ui, loads, results, outputs, printed>>

NextDriver == CallStartDriver \/ CallCloseDriver

SpecDriver == InitDriver /\ [][NextDriver]_vars

\* --------------------------------------------- clean_filename, called alone

MaxNameLen == 3

\* The characters of the names: letters of both cases, a digit, "&", the
\* separators " " and "-", "_", and U+0130 as in "U0130 s Bankasi".
NameChars == {"S", "P", "p", "1", "&", " ", "-", "_", "U0130"}

\* The names of at most MaxNameLen characters
NameTexts == ListsOf(NameChars, MaxNameLen)

InitNames ==
  /\ program = "names"
  /\ pc = "call"
  /\ name_given \in {Some(n) : n \in NameTexts}
  /\ filename = None
  /\ file = None
  /\ calls = <<>>
  /\ NoPage
  /\ NoLogoRun
  /\ NoRatingRun

\* self.clean_filename(company_name)
CleanFilename ==
  /\ program = "names" /\ pc = "call"
  /\ filename' = Some(clean_filename(name_given[1]))
  /\ pc' = "returned"
  /\ UNCHANGED <<program, name_given, file, calls, ratingVars, logoVars, runVars>>

\* clean_filename called with what it returned
CleanFilenameAgain ==
  /\ program = "names" /\ pc = "returned"
  /\ name_given' = filename
  /\ filename' = Some(clean_filename(filename[1]))
  /\ pc' = "again"
  /\ UNCHANGED <<program, file, calls, ratingVars, logoVars, runVars>>

NextNames == CleanFilename \/ CleanFilenameAgain

SpecNames == InitNames /\ [][NextNames]_vars

\* ------------------------------------------------------------------ claims

GresbDone == program = "gresb" /\ pc = "done"
SustDone == program = "sust" /\ pc = "done"

Min(S) == CHOOSE x \in S : \A y \in S : x <= y

\* What re.search(pattern, page_text, re.IGNORECASE) captures, as a number.
CaptureOf(pattern) ==
  LET m == re_search(pattern, page_text, TRUE)
  IN IF m.found THEN Some(ToInt(Group1(page_text, m))) ELSE None

CaptureIn(pattern, lo, hi) == CaptureOf(pattern) # None /\ CaptureOf(pattern)[1] \in lo..hi

\* The first pattern of the list whose capture is in lo..hi, and its capture.
FirstInRange(patterns, lo, hi) ==
  LET captures == [i \in DOMAIN patterns |-> CaptureOf(patterns[i])]
      ok == {i \in DOMAIN patterns : captures[i] # None /\ captures[i][1] \in lo..hi}
  IN IF ok = {} THEN [v |-> None, tried |-> Len(patterns)]
     ELSE [v |-> captures[Min(ok)], tried |-> Min(ok)]

\* The positions where s occurs in page_text, ignoring case.
Occurrences(s) == {p \in 1..(Len(page_text) - Len(s) + 1) : LitAt(s, page_text, TRUE, p)}
\* s occurs at position p as a whole figure: no digit follows it.
WholeAt(s, p) ==
  /\ LitAt(s, page_text, TRUE, p)
  /\ p + Len(s) > Len(page_text) \/ ~IsDigit(page_text[p + Len(s)])

\* C1: in extract_gresb_rating each field is the capture of the first pattern, in
\* declared order, whose capture is in the field's range (score 0..100, stars
\* 1..5); the loop searches for no pattern after that one, searches for all of
\* them and leaves None when there is none; so a score is in 0..100 and a star
\* count in 1..5.
C1_FirstInRangeWins ==
  GresbDone =>
    LET score == FirstInRange(score_patterns, 0, 100)
        stars == FirstInRange(star_patterns, 1, 5)
    IN /\ gresb_info.score = score.v
       /\ gresb_info.score_tried = score.tried
       /\ gresb_info.stars = stars.v
       /\ gresb_info.stars_tried = stars.tried
       /\ gresb_info.score # None => gresb_info.score[1] \in 0..100
       /\ gresb_info.stars # None => gresb_info.stars[1] \in 1..5

\* C1 witness: pattern 1 captured a number above 100 and pattern 3 gave the score.
C1_Witness ==
  /\ GresbDone
  /\ CaptureOf(score_pattern_1) # None /\ CaptureOf(score_pattern_1)[1] > 100
  /\ gresb_info.score # None /\ gresb_info.score_tried = 3

BothMatchDifferently(p, q) ==
  CaptureOf(p) # None /\ CaptureOf(q) # None /\ CaptureOf(p) # CaptureOf(q)

\* C2 as stated: a text matching pattern 1 and pattern 3 of a field with
\* different captures gives pattern 1's capture.
C2_Original ==
  GresbDone =>
    /\ BothMatchDifferently(score_pattern_1, score_pattern_3)
         => gresb_info.score = CaptureOf(score_pattern_1)
    /\ BothMatchDifferently(star_pattern_1, star_pattern_3)
         => gresb_info.stars = CaptureOf(star_pattern_1)

\* C2 as amended: such a text gives pattern 1's capture when that capture is in
\* the field's range, and never gives it when it is out of range.
C2_PatternOneWinsInRange ==
  GresbDone =>
    /\ BothMatchDifferently(score_pattern_1, score_pattern_3) =>
         IF CaptureIn(score_pattern_1, 0, 100)
         THEN gresb_info.score = CaptureOf(score_pattern_1)
         ELSE gresb_info.score # CaptureOf(score_pattern_1)
    /\ BothMatchDifferently(star_pattern_1, star_pattern_3) =>
         IF CaptureIn(star_pattern_1, 1, 5)
         THEN gresb_info.stars = CaptureOf(star_pattern_1)
         ELSE gresb_info.stars # CaptureOf(star_pattern_1)

\* C2 witness: pattern 3 matches earlier in the text than pattern 1, with another
\* value, and the score is pattern 1's.
C2_Witness ==
  /\ GresbDone
  /\ BothMatchDifferently(score_pattern_1, score_pattern_3)
  /\ re_search(score_pattern_3, page_text, TRUE).s < re_search(score_pattern_1, page_text, TRUE).s
  /\ CaptureIn(score_pattern_3, 0, 100)
  /\ gresb_info.score = CaptureOf(score_pattern_1)

Score83 == <<"G", "R", "E", "S", "B", " ", "s", "c", "o", "r", "e", ":", " ", "8", "3">>
Score140 == <<"G", "R", "E", "S", "B", " ", "s", "c", "o", "r", "e", ":", " ", "1", "4", "0">>

\* The first mention of GRESB in page_text starts the whole figure s.
FirstGresbIs(s) ==
  LET occ == Occurrences(<<"G", "R", "E", "S", "B">>)
  IN occ # {} /\ WholeAt(s, Min(occ))

\* The capture of score pattern i is no proper fragment of pattern 1's capture:
\* it is the same span of digits or shares no digit with it.
NoFragment(i) ==
  LET m1 == re_search(score_pattern_1, page_text, TRUE)
      mi == re_search(score_patterns[i], page_text, TRUE)
  IN (m1.found /\ mi.found) =>
       \/ mi.cs = m1.cs /\ mi.ce = m1.ce
       \/ mi.ce <= m1.cs
       \/ mi.cs >= m1.ce

\* The text has one score figure, "GRESB score: 140": it is the first mention of
\* GRESB, and whatever a later pattern captures is these same digits.
OnlyFigureIs140 ==
  /\ FirstGresbIs(Score140)
  /\ \A i \in 2..Len(score_patterns) :
       LET m1 == re_search(score_pattern_1, page_text, TRUE)
           mi == re_search(score_patterns[i], page_text, TRUE)
       IN mi.found => (mi.cs = m1.cs /\ mi.ce = m1.ce)

\* C3 as stated: a text containing the figure "GRESB score: 83" gives score 83, and
\* a text whose score figure is "GRESB score: 140" gives no score, no pattern
\* capturing a fragment of 140.
C3_Original ==
  GresbDone =>
    /\ (\E p \in Occurrences(Score83) : WholeAt(Score83, p)) => gresb_info.score = Some(83)
    /\ OnlyFigureIs140 =>
         (gresb_info.score = None /\ \A i \in 2..Len(score_patterns) : NoFragment(i))

\* C3 as amended: when the first mention of GRESB in the text is the figure
\* "GRESB score: 83" the score is 83; when it is "GRESB score: 140" the score is
\* not 140, it is None or the in-range capture of one of the patterns 2..5, and
\* no pattern captures a proper fragment of the digits 140.
C3_FirstFigureDecides ==
  GresbDone =>
    /\ FirstGresbIs(Score83) => gresb_info.score = Some(83)
    /\ FirstGresbIs(Score140) =>
         /\ gresb_info.score # Some(140)
         /\ \/ gresb_info.score = None
            \/ \E i \in 2..Len(score_patterns) : gresb_info.score = CaptureOf(score_patterns[i])
         /\ \A i \in 2..Len(score_patterns) : NoFragment(i)

\* C3 witness: the figure is "GRESB score: 140", pattern 3 matches on the same
\* digits 140, and no score is returned.
C3_Witness ==
  /\ GresbDone
  /\ FirstGresbIs(Score140)
  /\ re_search(score_pattern_3, page_text, TRUE).found
  /\ re_search(score_pattern_3, page_text, TRUE).cs = re_search(score_pattern_1, page_text, TRUE).cs
  /\ gresb_info.score = None

Achieved5 == <<"a", "c", "h", "i", "e", "v", "e", "d", " ", "5", " ", "s", "t", "a", "r", "s", " ", "i", "n", " ", "G", "R", "E", "S", "B">>
Achieved7 == <<"a", "c", "h", "i", "e", "v", "e", "d", " ", "7", " ", "s", "t", "a", "r", "s", " ", "i", "n", " ", "G", "R", "E", "S", "B">>

\* The leftmost match of star pattern 3 in page_text is the phrase s.
StarPattern3Finds(s) ==
  LET m == re_search(star_pattern_3, page_text, TRUE)
  IN m.found /\ m.e - m.s = Len(s) /\ LitAt(s, page_text, TRUE, m.s)

\* C4 as stated: a text containing "achieved 5 stars in GRESB" gives 5 stars, one
\* containing "achieved 7 stars in GRESB" gives none.
C4_Original ==
  GresbDone =>
    /\ Occurrences(Achieved5) # {} => gresb_info.stars = Some(5)
    /\ Occurrences(Achieved7) # {} => gresb_info.stars = None

\* C4 as amended: when star patterns 1 and 2 capture no digit in 1..5 and the
\* leftmost match of pattern 3 is "achieved N stars in GRESB", stars is N for
\* N = 5, and for N = 7 it is not 7: it is None or pattern 4's in-range capture.
C4_AchievedStars ==
  (GresbDone /\ ~CaptureIn(star_pattern_1, 1, 5) /\ ~CaptureIn(star_pattern_2, 1, 5)) =>
    /\ StarPattern3Finds(Achieved5) => gresb_info.stars = Some(5)
    /\ StarPattern3Finds(Achieved7) =>
         /\ gresb_info.stars # Some(7)
         /\ gresb_info.stars = IF CaptureIn(star_pattern_4, 1, 5) THEN CaptureOf(star_pattern_4) ELSE None

\* C4 witness: pattern 1 captured a digit above 5, pattern 3 found
\* "achieved 7 stars in GRESB", and there are no stars.
C4_Witness ==
  /\ GresbDone
  /\ CaptureOf(star_pattern_1) # None /\ ~CaptureIn(star_pattern_1, 1, 5)
  /\ ~CaptureIn(star_pattern_2, 1, 5)
  /\ StarPattern3Finds(Achieved7)
  /\ gresb_info.stars = None /\ gresb_info.stars_tried = Len(star_patterns)

\* C5 as stated: the ESG score of a scraped company is None or a number in
\* 0..100, whichever method produced it.
C5_EsgScoreInRange ==
  SustDone => (result.ESG_Score = None \/ EsgInRange(result.ESG_Score[1]))

\* The vocabulary entries that occur in page_text (case-sensitive), and where.
RiskPresent == {i \in DOMAIN risk_patterns : Contains(page_text, risk_patterns[i])}
RiskFirstPos(i) ==
  Min({p \in 1..Len(page_text) : LitAt(risk_patterns[i], page_text, FALSE, p)})

\* C6 as stated: the risk level is the keyword that occurs earliest in the page
\* text, and None when no keyword occurs.
C6_Original ==
  SustDone =>
    IF RiskPresent = {} THEN result.Risk_Level = None
    ELSE LET first == CHOOSE i \in RiskPresent :
                        \A j \in RiskPresent : RiskFirstPos(i) <= RiskFirstPos(j)
         IN result.Risk_Level = Some(risk_patterns[first])

\* C6 as amended: the risk level is None exactly when no keyword occurs in the
\* text; otherwise it is a keyword that occurs, and never one that stands after
\* another occurring keyword in the vocabulary, wherever they are in the text.
C6_VocabularyBeatsTextOrder ==
  SustDone =>
    /\ result.Risk_Level = None <=> RiskPresent = {}
    /\ result.Risk_Level # None => \E i \in RiskPresent : result.Risk_Level = Some(risk_patterns[i])
    /\ \A i, j \in RiskPresent : i < j => result.Risk_Level # Some(risk_patterns[j])

\* C6 witness: two keywords occur, the one later in the vocabulary earlier in the
\* text, and the risk level is the one earlier in the vocabulary.
C6_Witness ==
  /\ SustDone
  /\ \E i, j \in RiskPresent :
       /\ i < j
       /\ RiskFirstPos(j) < RiskFirstPos(i)
       /\ result.Risk_Level = Some(risk_patterns[i])

\* C7: the vocabulary is Negligible, Low, Medium, High, Severe in this order, and
\* the risk level is its first entry that occurs in the page text as a
\* case-sensitive substring, None when none occurs.
C7_FirstInVocabulary ==
  SustDone =>
    /\ risk_patterns = << <<"N", "e", "g", "l", "i", "g", "i", "b", "l", "e">>, <<"L", "o", "w">>,
                          <<"M", "e", "d", "i", "u", "m">>, <<"H", "i", "g", "h">>,
                          <<"S", "e", "v", "e", "r", "e">> >>
    /\ result.Risk_Level =
         IF RiskPresent = {} THEN None ELSE Some(risk_patterns[Min(RiskPresent)])

\* C7 witness: the text says Severe before it says Negligible, and the level is
\* Negligible.
C7_Witness ==
  /\ SustDone
  /\ {1, 5} \subseteq RiskPresent
  /\ RiskFirstPos(5) < RiskFirstPos(1)
  /\ result.Risk_Level = Some(risk_patterns[1])

\* page_text in upper case, in lower case, and with the case of each letter swapped.
CaseVariants == {UpperText(page_text), LowerText(page_text), SwapText(page_text)}

GresbCaseBlind ==
  \A t \in CaseVariants :
    LET info == extract_gresb_rating(t)
    IN info.score = gresb_info.score /\ info.stars = gresb_info.stars

\* C8 as stated: in both scripts the letter case of the page text changes no
\* extracted field.
C8_Original ==
  /\ GresbDone => GresbCaseBlind
  /\ SustDone =>
       \A t \in CaseVariants :
         LET record == ScrapePage(t, score_elements)
         IN /\ record.ESG_Score = result.ESG_Score
            /\ record.Risk_Level = result.Risk_Level
            /\ record.Management = result.Management

\* C8 as amended: in gresb_scraper.py the letter case of the page text changes
\* neither the score nor the stars that extract_gresb_rating returns; scraper.py
\* matches case-sensitively, so that from a page text in upper case it takes
\* no risk level, no management level, and no ESG score by a text pattern
\* other than the last, which has no letter in it.
C8_GresbIgnoresCase ==
  /\ GresbDone => GresbCaseBlind
  /\ SustDone =>
       LET upper == ScrapePage(UpperText(page_text), score_elements)
       IN /\ upper.Risk_Level = None
          /\ upper.Management = None
          /\ upper.method = "text" => upper.tried = Len(esg_score_patterns)

\* C8 witness: a text of mixed case that gave a score and stars.
C8_Witness ==
  /\ GresbDone
  /\ gresb_info.score # None /\ gresb_info.stars # None
  /\ UpperText(page_text) # page_text /\ LowerText(page_text) # page_text

LogoRun == program = "logo"
Last(seq) == seq[Len(seq)]

\* C9 as stated: when the first provider answers with a non-success and the
\* second with a success (status 200), the company is in downloaded with the
\* second provider as its service, and no third or fourth provider is called.
C9_Original ==
  (LogoRun /\ Len(attempts) >= 2 /\ attempts[1].status # 200 /\ attempts[2].status = 200) =>
    /\ Len(attempts) = 2
    /\ downloaded # <<>>
    /\ Last(downloaded).company = companies[ci].name
    /\ Last(downloaded).service = "Logo.dev"

\* C9 as amended: the providers are called in the order Clearbit, Logo.dev,
\* Brandfetch, Google Favicons; a provider is accepted when process_image saved
\* the bytes it returned, which takes a status 200; an accepted provider is the
\* last one called for the company, the company is then in downloaded with this
\* provider as its service and extract_logo returned True; a provider that was
\* not accepted, a status 200 included, is followed by the next provider.
C9_ShortCircuit ==
  LogoRun =>
    /\ \A k \in 1..Len(attempts) :
         attempts[k].service = <<"Clearbit", "Logo.dev", "Brandfetch", "Google Favicons">>[k]
    /\ \A k \in 1..Len(attempts) :
         attempts[k].accepted =>
           /\ k = Len(attempts)
           /\ attempts[k].status = 200
           /\ pc \in {"sleep", "loop", "done"}
           /\ Len(returned) = ci /\ returned[ci]
           /\ downloaded # <<>>
           /\ Last(downloaded).company = companies[ci].name
           /\ Last(downloaded).service = attempts[k].service
    /\ (attempts # <<>> /\ ~Last(attempts).accepted /\ pc # "raised" /\ Len(attempts) < Len(services)) =>
         (pc = "services" /\ si = Len(attempts) + 1)

\* C9 witness: the run is over; for its last company Clearbit answered 404,
\* Logo.dev was accepted, and these are the two providers that were called.
C9_Witness ==
  /\ LogoRun /\ pc = "done"
  /\ Len(attempts) = 2
  /\ attempts[1].status = 404
  /\ attempts[2].accepted
  /\ Last(downloaded).service = "Logo.dev"

\* All four providers were called for the current company and none was
\* accepted: each gave a non-success, raised an exception or gave bytes that
\* process_image could not save.
AllProvidersFailed ==
  /\ Len(attempts) = Len(services)
  /\ \A k \in 1..Len(attempts) :
       ~attempts[k].accepted /\ attempts[k].raised # Some("KeyboardInterrupt")

\* C10: when all four providers have failed for a company, extract_logo raises
\* nothing, appends the company to failed and returns False; nothing but an
\* interrupt of the process ends the run early, and a run that reaches its end
\* has called extract_logo for every company of the list.
C10_FailureIsRecorded ==
  LogoRun =>
    /\ AllProvidersFailed => (pc # "raised" /\ exception = None)
    /\ (AllProvidersFailed /\ pc # "services") =>
         /\ failed # <<>> /\ Last(failed) = companies[ci].name
         /\ Len(returned) = ci /\ ~returned[ci]
    /\ pc = "raised" => exception = Some("KeyboardInterrupt")
    /\ pc \in {"sleep", "loop", "done"} => Len(returned) = ci
    /\ pc = "done" => (ci = Len(companies) /\ Len(downloaded) + Len(failed) = Len(companies))

\* C10 witness: the run is over, its first company failed at every provider,
\* one of them by an exception of the fetch, and the second company was
\* processed after it and has its logo.
C10_Witness ==
  /\ LogoRun /\ pc = "done"
  /\ Len(returned) = 2 /\ ~returned[1] /\ returned[2]
  /\ companies[1].name = None /\ companies[1].domain = None
  /\ failed = <<None>>

\* C11: every logo file that process_image saved is in mode RGBA, whatever the
\* mode of the image that the provider sent.
C11_SavedAsRgba ==
  LogoRun => \A f \in files : f.mode = "RGBA"

\* C19: a provider's answer is accepted only with status 200 and, from Google
\* Favicons, only with more than 1000 bytes: the provider whose bytes were saved
\* answered 200 (Google Favicons: with more than 1000 bytes); an answer of Google
\* Favicons of at most 1000 bytes and an answer with another status than 200
\* are never the source of a saved logo.
C19_AcceptedResponses ==
  (LogoRun /\ attempts # <<>>) =>
    LET a == Last(attempts)
    IN /\ \A k \in 1..Len(attempts) : attempts[k].accepted => attempts[k].status = 200
       /\ a.accepted =>
            /\ response.kind = "http" /\ response.status = 200
            /\ a.service = "Google Favicons" => response.content.length > 1000
       /\ (response.kind = "http" /\ response.status # 200) => ~a.accepted
       /\ (a.service = "Google Favicons" /\ response.kind = "http"
             /\ response.content.length <= 1000) =>
            /\ ~a.accepted
            /\ pc = "services" => si = Len(services) + 1
            /\ pc \in {"sleep", "loop", "done"} => (Len(returned) = ci /\ ~returned[ci])

\* C19 witness: Google Favicons, the last provider, answered 200 with an image
\* of exactly 1000 bytes and was not accepted.
C19_Witness ==
  /\ LogoRun /\ Len(attempts) = Len(services)
  /\ Last(attempts).service = "Google Favicons"
  /\ response.status = 200 /\ response.content = Content(1000, "RGB")
  /\ ~Last(attempts).accepted

\* The domain that the claim derives from a company name: the name in lower
\* case without its spaces and ampersands, followed by ".com".
C20_Derived ==
  [n \in {<<"S", "&", "P">>, <<"S", " ", "&", " ", "P">>} |-> <<"s", "p", ".", "c", "o", "m">>]

\* C20: a provider that requested a URL used the supplied domain unchanged when
\* the company has one, and otherwise (the domain is absent or the empty
\* string) the domain derived from the name; every provider called for a
\* company used the same domain, and a provider of a company that has a name
\* or a domain did request a URL.
C20_DomainDerivation ==
  LogoRun =>
    \A k \in 1..Len(attempts) :
      LET c == companies[ci]
          supplied == c.domain # None /\ c.domain[1] # <<>>
      IN /\ (supplied \/ c.name # None) => attempts[k].domain # None
         /\ attempts[k].domain # None =>
              /\ attempts[k].domain = attempts[1].domain
              /\ supplied => attempts[k].domain = c.domain
              /\ ~supplied => attempts[k].domain = Some(C20_Derived[c.name[1]])

\* C20 witness: all four providers were called for the company "S & P", whose
\* domain is the empty string, and each requested sp.com.
C20_Witness ==
  /\ LogoRun /\ Len(attempts) = Len(services)
  /\ companies[ci].name = Some(<<"S", " ", "&", " ", "P">>)
  /\ companies[ci].domain = Some(<<>>)
  /\ \A k \in 1..Len(attempts) : attempts[k].domain = Some(<<"s", "p", ".", "c", "o", "m">>)

RatingRun == program \in {"gresb_run", "sust_run"}
GresbRun == program = "gresb_run"
SustRun == program = "sust_run"

\* The run has ended: main is through, scrape_sustainalytics returned or was
\* left by an exception.
RunOver ==
  \/ GresbRun /\ pc = "done"
  \/ SustRun /\ pc \in {"done", "raised", "interrupted"}

\* The run was interrupted by Ctrl+C.
Interrupted ==
  \/ GresbRun /\ (pc = "interrupted" \/ "Scraping interrupted by user" \in printed)
  \/ SustRun /\ pc = "interrupted"

\* C12: every browser that was started gets its quit() exactly once: never a
\* second time, and when the run is over, however it ended, no browser is left
\* without it.
C12_ReleasedExactlyOnce ==
  RatingRun =>
    /\ \A h \in 1..Len(browsers) : browsers[h].quits <= 1
    /\ RunOver => \A h \in 1..Len(browsers) : browsers[h].quits = 1

\* C13: at most one browser is started in a run, and every page load is made
\* by that browser.
C13_OneBrowser ==
  RatingRun =>
    /\ Len(browsers) <= 1
    /\ \A i \in 1..Len(loads) : loads[i].browser = Some(1)

\* The pages of the runs that hold a valid rating: a GRESB score of 83, a GRESB
\* score of 0, four GRESB stars; an ESG score in the text, in an element.
C14_GresbMatches ==
  { <<"G", "R", "E", "S", "B", " ", "s", "c", "o", "r", "e", ":", " ", "8", "3">>,
    <<"G", "R", "E", "S", "B", " ", "s", "c", "o", "r", "e", ":", " ", "0">>,
    <<"G", "R", "E", "S", "B", " ", "4", " ", "s", "t", "a", "r">> }
C14_SustMatches ==
  { [text |-> <<"E", "S", "G", " ", "R", "i", "s", "k", " ", "R", "a", "t", "i", "n", "g", ":", " ", "1", "6", ".", "8", " ", "L", "o", "w", " ", "R", "i", "s", "k">>, elements |-> NoElements],
    [text |-> <<>>, elements |-> [raises |-> FALSE, texts |-> << <<"1", "6", ".", "8">> >>]] }

\* No load of the current target rendered a page with text or elements.
NothingRendered ==
  \A i \in 1..Len(loads) :
    \/ loads[i].kind # "page"
    \/ loads[i].page = <<>>
    \/ loads[i].page = [text |-> <<>>, elements |-> NoElements]

\* C14: the records are those of the targets taken so far, one each and in
\* the declared order; a run whose browser started and that was not interrupted
\* ends with a record of every target; the record of a target whose loads all
\* failed or rendered nothing has its rating fields empty, and the record of a
\* target with a page that holds a valid rating is populated.
C14_OneRecordPerTarget ==
  /\ GresbRun =>
       /\ Len(results) <= ti
       /\ \A k \in 1..Len(results) : results[k].company = GresbCompanies[k]
       /\ (pc \in {"returned", "done"} /\ ~Interrupted
             /\ \E h \in 1..Len(browsers) : browsers[h].by = "start_driver") =>
            Len(results) = Len(GresbCompanies)
       /\ pc = "sleep" =>
            /\ Len(results) = ti
            /\ NothingRendered =>
                 /\ Last(results).gresb_score = None
                 /\ Last(results).gresb_stars = None
                 /\ Last(results).source_url = None
            /\ (\E i \in 1..Len(loads) : loads[i].kind = "page" /\ loads[i].page \in C14_GresbMatches) =>
                 (Last(results).gresb_score # None \/ Last(results).gresb_stars # None)
  /\ SustRun =>
       /\ Len(results) <= ti
       /\ \A k \in 1..Len(results) : results[k].Company = SustCompanies[k]
       /\ (pc \in {"done", "raised"} /\ browsers # <<>>) => Len(results) = Len(SustCompanies)
       /\ pc = "sleep" =>
            /\ Len(results) = ti
            /\ NothingRendered =>
                 /\ Last(results).ESG_Score = None
                 /\ Last(results).Risk_Level = None
                 /\ Last(results).Management = None
            /\ (loads[1].kind = "page" /\ loads[1].page \in C14_SustMatches) =>
                 Last(results).ESG_Score # None

\* C15: no provider is fetched twice in one extract_logo call and no url is
\* loaded twice in one scrape_company call: the k-th attempt for a company is
\* made at the k-th provider, the k-th load for a company at its k-th url.
C15_NoSourceTwice ==
  /\ LogoRun =>
       /\ Len(attempts) <= 4
       /\ \A i, j \in 1..Len(attempts) : attempts[i].service = attempts[j].service => i = j
       /\ \A k \in 1..Len(attempts) :
            attempts[k].service = <<"Clearbit", "Logo.dev", "Brandfetch", "Google Favicons">>[k]
  /\ GresbRun =>
       /\ Len(loads) <= MaxUrls
       /\ \A i, j \in 1..Len(loads) : loads[i].url = loads[j].url => i = j
       /\ \A k \in 1..Len(loads) : loads[k].target = ti /\ loads[k].url = <<GresbCompanies[ti], k>>

\* C15 witness: the first url of a company timed out, the second was loaded
\* after it, and the company has its record.
C15_Witness ==
  /\ GresbRun /\ pc = "sleep"
  /\ Len(loads) = 2
  /\ loads[1].kind = "TimeoutException"
  /\ loads[2].url = <<GresbCompanies[ti], 2>>

\* The current company of extract_multiple is resolved: extract_logo returned,
\* True after an accepted provider, False after all four providers were called
\* and none was accepted.
LogoResolved ==
  /\ Len(returned) = ci
  /\ returned[ci] => Last(attempts).accepted
  /\ ~returned[ci] => (Len(attempts) = 4 /\ \A k \in 1..4 : ~attempts[k].accepted)

\* The current company of scrape_all is resolved: its record is in results,
\* with the rating of the page loaded last, or without a rating after all its
\* urls were loaded.
GresbResolved ==
  /\ Len(results) = ti
  /\ Last(results).source_url # None =>
       (Last(loads).kind = "page" /\ Last(results).source_url = Some(Last(loads).url))
  /\ Last(results).source_url = None => Len(loads) = MaxUrls

\* C16: the targets are processed one after another: every provider fetch and
\* page load on record is for the target the loop is at, every target before
\* it has its outcome (extract_logo returned, the record is in results), and a
\* target that has its outcome is resolved: accepted from a provider or url,
\* or all of its providers or urls were tried.
C16_OneAfterAnother ==
  /\ LogoRun =>
       /\ Len(returned) \in {ci - 1, ci}
       /\ attempts # <<>> => ci >= 1
       /\ Len(returned) = ci - 1 => pc \in {"services", "raised"}
       /\ (ci >= 1 /\ Len(returned) = ci) => LogoResolved
  /\ GresbRun =>
       /\ Len(results) \in {ti - 1, ti}
       /\ \A i \in 1..Len(loads) : loads[i].target = ti /\ ti >= 1
       /\ Len(results) = ti - 1 => pc \in {"urls", "page", "interrupted", "returned", "done"}
       /\ (ti >= 1 /\ Len(results) = ti) => GresbResolved
  /\ SustRun =>
       /\ Len(results) \in {ti - 1, ti}
       /\ \A i \in 1..Len(loads) : loads[i].target = ti /\ ti >= 1
       /\ Len(results) = ti - 1 => pc \in {"page", "interrupted"}
       /\ Len(loads) <= 1

\* C16 witness: a page of the second company is loaded, after both urls of the
\* first company were loaded and gave no rating.
C16_Witness ==
  /\ GresbRun /\ ti = 2 /\ loads # <<>>
  /\ results[1].source_url = None

\* C17: after an interrupt the loop does not go on, and the records collected
\* before it are written to the output files when the run is over.
C17_InterruptKeepsRecords ==
  (RatingRun /\ Interrupted) =>
    /\ pc \in {"interrupted", "done"}
    /\ (RunOver /\ results # <<>>) =>
         (IF GresbRun THEN "gresb_ratings.csv" ELSE "sustainalytics_scores.csv") \in outputs

\* No browser was started for the run: start_driver raised, check_chrome_driver
\* failed and the user gave up, setup_selenium returned no driver.
SetupFailed ==
  /\ \/ GresbRun /\ pc \in {"returned", "done"}
     \/ SustRun /\ pc = "done"
  /\ \A h \in 1..Len(browsers) : browsers[h].by = "check_chrome_driver"

\* C18: when no browser could be started the failure was reported, no page
\* was loaded, no record was added and no output file was written; main then
\* reports that no results were collected.
C18_SetupFailureIsFatal ==
  (RatingRun /\ SetupFailed) =>
    /\ printed \cap {"Fatal error during scraping", "Chrome/ChromeDriver setup issues detected", "Error setting up driver"} # {}
    /\ ti = 0 /\ loads = <<>>
    /\ results = <<>>
    /\ outputs = {}
    /\ (GresbRun /\ pc = "done") => "No results were collected" \in printed

\* C18 witness: the driver check passed, start_driver raised, and main is
\* through.
C18_Witness ==
  /\ GresbRun /\ pc = "done"
  /\ "Fatal error during scraping" \in printed
  /\ Len(browsers) = 1 /\ browsers[1].by = "check_chrome_driver"

\* C21: clean_filename returns, for every name, only lowercase letters, digits
\* and underscores ("S&P" gives "sp", the file is sp_logo.png); two names get
\* the same file path exactly when their cleaned forms are the same; cleaning
\* what clean_filename returned gives it back unchanged.
C21_CleanFilename ==
  /\ (program = "names" /\ pc = "returned") =>
        /\ Range(filename[1]) \subseteq LowerSet \cup DigitSet \cup {"_"}
        /\ name_given = Some(<<"S", "&", "P">>) =>
              /\ filename = Some(<<"s", "p">>)
              /\ LogoFilename(name_given[1]) = <<"s", "p", "_", "l", "o", "g", "o", ".", "p", "n", "g">>
        /\ \A other \in NameTexts :
              LogoFilename(other) = LogoFilename(name_given[1]) <=> clean_filename(other) = filename[1]
  /\ (program = "names" /\ pc = "again") => filename = name_given

\* A line that gives an entry: not blank and not starting with "#" once trimmed
IsEntryLine(raw) == Strip(raw) # <<>> /\ Head(Strip(raw)) # "#"

\* e is the entry of the line raw: name and domain around the first comma,
\* both trimmed, or the trimmed line as the name
EntryOfLine(raw, e) ==
  LET t == Strip(raw)
  IN IF "," \in Range(t)
     THEN \E k \in DOMAIN t :
            /\ t[k] = "," /\ "," \notin Range(SubSeq(t, 1, k - 1))
            /\ e = [name |-> Some(Strip(SubSeq(t, 1, k - 1))),
                    domain |-> Some(Strip(SubSeq(t, k + 1, Len(t))))]
     ELSE e = [name |-> Some(t), domain |-> None]

\* The load of args.file is over.
FileLoaded == file # None /\ pc # "load"

\* C22: load_companies_from_file on a text file returns one entry per line
\* that is not blank and does not start with "#" after trimming, in file order,
\* {name, domain} split at the first comma and trimmed or {name}; on a .json
\* file it returns the array as is and raises when the value is no array; a
\* missing file raises; an error makes main exit with 1 before any fetch.
C22_LoadCompanies ==
  FileLoaded =>
    LET f == file[1]
        kept == SelectSeq(f.lines, IsEntryLine)
        raises == ~f.exists \/ (f.suffix = ".json" /\ f.data.kind # "list")
    IN /\ pc = "sys.exit(1)" <=> raises
       /\ raises =>
            /\ program = "main" /\ "Error loading file" \in printed
            /\ companies = <<>> /\ ci = 0 /\ attempts = <<>> /\ files = {}
       /\ (~raises /\ f.suffix = ".json") => companies = f.data.items
       /\ (~raises /\ f.suffix # ".json") =>
            /\ Len(companies) = Len(kept)
            /\ \A i \in 1..Len(kept) : EntryOfLine(kept[i], companies[i])

\* A text file of a comment and of the line " S&P , a,b " was loaded: one
\* entry, and its logo has been fetched for the domain "a,b".
C22_Witness ==
  /\ FileLoaded /\ file[1].suffix = ".txt" /\ Len(file[1].lines) = 2
  /\ ~IsEntryLine(file[1].lines[1])
  /\ companies = << [name |-> Some(<<"S", "&", "P">>), domain |-> Some(<<"a", ",", "b">>)] >>
  /\ Len(downloaded) = 1

\* What extract_gresb_rating gives for the page of a load
PageRating(l) == extract_gresb_rating(l.page)

\* The load rendered a page whose extraction gives a score or a star count.
YieldsRating(l) ==
  l.kind = "page" /\ (PageRating(l).score # None \/ PageRating(l).stars # None)

\* C23: scrape_company tries the urls in declared order and stops at the first
\* url whose page gives a score (any of 0..100) or a star count (any of 1..5):
\* no later url is loaded, and the record carries the score and the stars of
\* that page, one of them possibly empty, and that url as source_url.
C23_CascadeEndsAtFirstRating ==
  (GresbRun /\ ti >= 1) =>
    /\ \A i \in 1..Len(loads) : loads[i].url = urls(GresbCompanies[ti])[i]
    /\ \A i \in 1..(Len(loads) - 1) : ~YieldsRating(loads[i])
    /\ (pc = "sleep" /\ loads # <<>> /\ YieldsRating(Last(loads))) =>
         /\ Last(results).gresb_score = PageRating(Last(loads)).score
         /\ Last(results).gresb_stars = PageRating(Last(loads)).stars
         /\ Last(results).source_url = Some(Last(loads).url)

\* The value the k-th ESG score source yields, if it yields one: source 0 is
\* the text of the score elements, source k >= 1 the first match of the k-th
\* page-text pattern that lies in 0..100.
EsgSource(k) ==
  IF k = 0 THEN ScoreFromElements(score_elements)
  ELSE MatchLoop(re_findall(esg_score_patterns[k], page_text), 1, None)

\* C24: the ESG score sources are consulted in a fixed order, the element
\* text first, then the four page-text patterns as declared; the first source
\* that yields a value, 0 included, fixes ESG_Score: no later pattern is
\* consulted and the value is not overwritten.
C24_FirstSourceFixesScore ==
  SustDone =>
    LET yielding == {k \in 0..Len(esg_score_patterns) : EsgSource(k) # None}
    IN IF yielding = {}
       THEN result.ESG_Score = None
       ELSE /\ result.ESG_Score = EsgSource(Min(yielding))
            /\ result.tried = Min(yielding)

\* s is an initial part of t.
IsPrefix(s, t) == Len(s) <= Len(t) /\ SubSeq(t, 1, Len(s)) = s

\* How many of the first k extract_logo calls returned b
CountReturned(b, k) == Cardinality({j \in 1..k : returned[j] = b})

\* The companies extract_logo has returned for are in downloaded and failed,
\* each once and in one of the two, in the order of the list.
EachProcessedOnce ==
  LogoRun =>
    /\ Len(returned) \in {ci - 1, ci} \cap 0..Len(companies)
    /\ Len(downloaded) + Len(failed) = Len(returned)
    /\ \A k \in 1..Len(returned) :
         IF returned[k]
         THEN downloaded[CountReturned(TRUE, k)].company = companies[k].name
         ELSE failed[CountReturned(FALSE, k)] = companies[k].name
    /\ pc = "done" => Len(downloaded) + Len(failed) = Len(companies)

\* C25: during extract_multiple the lengths of downloaded and failed add up to
\* the number of companies processed so far, each processed company being once
\* in one of the two lists; after a list of n companies they add up to n; an
\* entry of either list is never removed or changed.
C25_EveryCompanyCounted ==
  /\ []EachProcessedOnce
  /\ [][LogoRun => (IsPrefix(downloaded, downloaded') /\ IsPrefix(failed, failed'))]_vars

\* The run is over: the two companies of the list, both without a name, are
\* in failed, one entry each.
C25_Witness ==
  /\ LogoRun /\ pc = "done"
  /\ Len(companies) = 2
  /\ returned = <<FALSE, FALSE>>
  /\ failed = <<None, None>>

\* The last fetch returned bytes (status 200, not empty, for Google Favicons
\* more than 1000) and process_image did not save them.
FetchedNotSaved ==
  /\ attempts # <<>> /\ ~Last(attempts).accepted /\ Last(attempts).raised = None
  /\ response.kind = "http" /\ response.status = 200 /\ response.content.length > 0
  /\ Len(attempts) = 4 => response.content.length > 1000

\* C26: a company is appended to failed only after Clearbit, Logo.dev,
\* Brandfetch and Google Favicons, in this order, were all attempted for it and
\* none gave a saved file; a provider whose bytes were fetched but not decoded
\* or saved is followed by the next provider; the service of a downloaded
\* entry is the first provider, in this order, whose bytes were saved.
C26_FailedAfterAllProviders ==
  LogoRun =>
    /\ \A k \in 1..Len(attempts) :
         /\ attempts[k].service = <<"Clearbit", "Logo.dev", "Brandfetch", "Google Favicons">>[k]
         /\ k < Len(attempts) => ~attempts[k].accepted
    /\ (ci >= 1 /\ Len(returned) = ci /\ ~returned[ci]) =>
         /\ Len(attempts) = 4
         /\ \A k \in 1..4 : ~attempts[k].accepted
         /\ Last(failed) = companies[ci].name
    /\ Len(failed) = CountReturned(FALSE, Len(returned))
    /\ (FetchedNotSaved /\ Len(attempts) < 4) => (pc = "services" /\ si = Len(attempts) + 1)
    /\ (FetchedNotSaved /\ Len(attempts) = 4) =>
         \/ pc = "services" /\ si = 5 /\ Len(returned) = ci - 1
         \/ pc # "services" /\ Len(returned) = ci /\ ~returned[ci]
    /\ (ci >= 1 /\ Len(returned) = ci /\ returned[ci]) =>
         /\ Last(attempts).accepted
         /\ Last(downloaded).service = Last(attempts).service

\* The run is over; for its last company Clearbit answered 200 and no file
\* was saved, Logo.dev answered 404, the request to Brandfetch gave no
\* response, Google Favicons sent bytes that could not be saved, and the
\* company is in failed.
C26_Witness ==
  /\ LogoRun /\ pc = "done" /\ ci >= 1
  /\ FetchedNotSaved /\ Len(attempts) = 4
  /\ attempts[1].status = 200 /\ attempts[2].status = 404 /\ attempts[3].status = 0
  /\ failed # <<>> /\ Last(failed) = companies[ci].name

\* C27: in every record of scrape_company source_url is None exactly when
\* gresb_score and gresb_stars are both None; a record with a source_url holds
\* the score and the stars extracted from the page of that url, both from
\* this one page.
C27_SourceUrlIffRating ==
  GresbRun =>
    /\ \A k \in 1..Len(results) :
         results[k].source_url = None <=>
           (results[k].gresb_score = None /\ results[k].gresb_stars = None)
    /\ (pc = "sleep" /\ Last(results).source_url # None) =>
         \E i \in 1..Len(loads) :
           /\ loads[i].kind = "page" /\ loads[i].url = Last(results).source_url[1]
           /\ Last(results).gresb_score = PageRating(loads[i]).score
           /\ Last(results).gresb_stars = PageRating(loads[i]).stars

\* The first url of a company rendered a page with the score 0, which was not
\* taken, the second a page with four stars: the record has the stars and the
\* second url, and no score.
C27_Witness ==
  /\ GresbRun /\ pc = "sleep" /\ Len(loads) = 2
  /\ loads[1].kind = "page" /\ PageRating(loads[1]).score = Some(0)
  /\ Last(results).gresb_score = None /\ Last(results).gresb_stars = Some(4)
  /\ Last(results).source_url = Some(loads[2].url)

\* C28: close_driver leaves the scraper without a handle and raises nothing,
\* also when quit() fails; without a handle, as after an earlier close_driver,
\* it does nothing and quits no browser again; start_driver with a handle held
\* starts no browser and leaves the handle as it is.
C28_DriverCallsIdempotent ==
  program = "driver" =>
    /\ \A k \in 1..Len(calls) :
         LET c == calls[k]
         IN /\ c.method = "close_driver" =>
                 /\ c.driver_after = None /\ ~c.raised
                 /\ c.driver_before = None => c.browsers_after = c.browsers_before
                 /\ c.driver_before # None =>
                      \A h \in 1..Len(c.browsers_before) :
                        c.browsers_after[h].quits =
                          c.browsers_before[h].quits + (IF c.driver_before = Some(h) THEN 1 ELSE 0)
            /\ (c.method = "start_driver" /\ c.driver_before # None) =>
                 /\ c.driver_after = c.driver_before /\ ~c.raised
                 /\ c.browsers_after = c.browsers_before
    /\ \A h \in 1..Len(browsers) : browsers[h].quits <= 1

\* start_driver, start_driver again with the handle held, close_driver with a
\* quit() that fails, close_driver again: one browser was started and quit once.
C28_Witness ==
  /\ program = "driver" /\ Len(calls) = 4
  /\ calls[1].method = "start_driver" /\ calls[2].method = "start_driver"
  /\ calls[3].method = "close_driver" /\ calls[4].method = "close_driver"
  /\ Len(browsers) = 1 /\ browsers[1].quits = 1 /\ browsers[1].quit_raised
  /\ driver = None
====
